---------------------------- MODULE Spec2Model ----------------------------
(***************************************************************************)
(* WeatherService (src/src/services/weather.service.ts): a per-user cache  *)
(* and a shared, geohash-bucketed proximity cache in front of the weather  *)
(* API.                                                                    *)
(*                                                                         *)
(* Numbers.  Coordinates are fixed-point, in units of 1e-4 degree.  Raw    *)
(* upstream temperatures are fixed-point, in tenths of a degree Celsius.   *)
(* Times are milliseconds.  Distances are whole metres.                    *)
(***************************************************************************)
EXTENDS Integers, Sequences, FiniteSets, TLC

(***************************************************************************)
(* Program constants (weather.service.ts:22-24).                           *)
(***************************************************************************)
PROXIMITY_KM == 5
FRESH_TTL_MS == 10 * 60 * 1000

\* 1000 in the source.  The model runs the same eviction code with a small
\* capacity, so that a run of a few fetches takes the cache past it.
MAX_SHARED_CACHE_ENTRIES == 2

(***************************************************************************)
(* Bounds of the model.                                                    *)
(***************************************************************************)
\* Network requests issued in one behaviour of Spec.
MaxCalls == 2
\* Network requests issued in one behaviour of SpecCapacity.
MaxCapacityCalls == 4
\* Requests outstanding at once in a behaviour of SpecCapacity.
MaxCapacityInflight == 2
\* The clock takes the values 0 and k * FRESH_TTL_MS + {-1, 0}, 1 <= k <= MaxPeriods.
MaxPeriods == 1
\* Upstream readings of SpecRounding: -MaxReading..MaxReading tenths of a degree.
MaxReading == 155
\* Network requests issued in one behaviour of SpecRounding.
MaxRoundingCalls == 1
\* Network requests issued in one behaviour of SpecDashboard.
MaxDashboardCalls == 2
\* Network requests issued in one behaviour of SpecLookup.
MaxLookupCalls == 2
\* Network requests issued in one behaviour of SpecEviction.
MaxEvictionCalls == 3
\* Network requests issued in one behaviour of SpecTestSupport.
MaxTestSupportCalls == 2

(***************************************************************************)
(* Inputs.                                                                 *)
(***************************************************************************)
\* A session is a user id and that user's logger.  session.logger either is a
\* full logger with child(), or offers debug/info/warn/error only (as the
\* loggers of the test suite do).
Sessions == { [userId |-> "u1", logger |-> "full"],
              [userId |-> "u2", logger |-> "plain"] }
Users == {s.userId : s \in Sessions}

\* Query coordinates, 1e-4 degree.  P0 is the coordinate of the test suite
\* (37.7749, -122.4194); N33 and N67 are its +0.03 and +0.06 degree moves
\* north; W2 lies 0.0566 degree west of P0.
P0  == [lat |-> 377749, long |-> -1224194]
N33 == [lat |-> 378049, long |-> -1224194]
N67 == [lat |-> 378349, long |-> -1224194]
W2  == [lat |-> 377749, long |-> -1224760]
Points == {P0, N33, N67, W2}
\* The coordinates asked for in Spec, and those asked for in SpecCapacity
\* (three buckets: 9q8yy, 9q8zn, 9q8yu).
CorePoints == {P0, N33, N67}
CapacityPoints == {P0, N67, W2}

\* Three coordinates around the north-east corner of P0's cell (9q8yy):
\* Corner lies inside the cell, NorthOfCorner 4.5 km north of it in the cell's
\* northern neighbour (9q8zn), EastOfCorner 3.0 km east of it in the eastern
\* neighbour (9q8yz).  The two outer points are 5.4 km apart.
Corner        == [lat |-> 377920, long |-> -1223880]
NorthOfCorner == [lat |-> 378325, long |-> -1223880]
EastOfCorner  == [lat |-> 377920, long |-> -1223540]
LookupPoints == {Corner, NorthOfCorner, EastOfCorner}

\* A coordinate in the south-west of the same cell (9q8yy), 5.9 km from Corner.
SouthWestCorner == [lat |-> 377500, long |-> -1224290]
TestSupportPoints == {Corner, SouthWestCorner, N67}

Instants ==
    {0} \cup {k * FRESH_TTL_MS + d : k \in 1..MaxPeriods, d \in {-1, 0}}

(***************************************************************************)
(* Upstream responses.  axios.get either resolves with a payload (2xx) or  *)
(* rejects (transport error, non-2xx status).  A payload carries           *)
(* current.weather[0].main and current.temp, either of which may be        *)
(* missing.                                                                *)
(*                                                                         *)
(* An optional value (T | undefined) is a sequence of length 0 or 1.       *)
(***************************************************************************)
Missing == << >>
Some(v) == <<v>>

WellFormed == { [main |-> Some("Clouds"), temp |-> Some(245)] }

Malformed == { [main |-> Missing,      temp |-> Some(-15)],
               [main |-> Some("Rain"), temp |-> Missing] }

Payloads == WellFormed \cup Malformed

NoPayload == [main |-> Missing, temp |-> Missing]

Responses ==
    {[kind |-> "ok", data |-> d] : d \in Payloads}
        \cup {[kind |-> "transport", data |-> NoPayload],
              [kind |-> "status",    data |-> NoPayload]}

\* The responses of Spec: a well-formed payload, a payload without the
\* condition label, a transport error.
CoreResponses ==
    {r \in Responses : r.kind \in {"ok", "transport"} /\ (r.kind = "ok" => r.data.temp # Missing)}

(***************************************************************************)
(* geohash.encode(lat, lon, 5): 25 bisections, longitude first, a bit is 1 *)
(* when the coordinate is strictly above the midpoint; every 5 bits make   *)
(* one base-32 character.  The bisection runs on coordinate * 128, which   *)
(* keeps every midpoint (and every cell centre) an integer.                *)
(***************************************************************************)
BASE32 == << "0", "1", "2", "3", "4", "5", "6", "7", "8", "9", "b", "c",
             "d", "e", "f", "g", "h", "j", "k", "m", "n", "p", "q", "r",
             "s", "t", "u", "v", "w", "x", "y", "z" >>

GeoScale == 2 ^ 7
GeoLatMax == 90 * 10000 * GeoScale
GeoLonMax == 180 * 10000 * GeoScale
GeoPrecision == 5

RECURSIVE EncodeBits(_, _, _, _, _, _, _)
\* The bit sequence of the remaining bisections; n counts the bits so far.
EncodeBits(la, lo, minLat, maxLat, minLon, maxLon, n) ==
    IF n = 5 * GeoPrecision THEN << >>
    ELSE IF n % 2 = 0
         THEN LET mid == (maxLon + minLon) \div 2 IN
              IF lo > mid
              THEN <<1>> \o EncodeBits(la, lo, minLat, maxLat, mid, maxLon, n + 1)
              ELSE <<0>> \o EncodeBits(la, lo, minLat, maxLat, minLon, mid, n + 1)
         ELSE LET mid == (maxLat + minLat) \div 2 IN
              IF la > mid
              THEN <<1>> \o EncodeBits(la, lo, mid, maxLat, minLon, maxLon, n + 1)
              ELSE <<0>> \o EncodeBits(la, lo, minLat, mid, minLon, maxLon, n + 1)

CharOfBits(bits, i) ==
    BASE32[1 + 16 * bits[5 * i + 1] + 8 * bits[5 * i + 2] + 4 * bits[5 * i + 3]
             + 2 * bits[5 * i + 4] + bits[5 * i + 5]]

\* Scaled coordinates in, the key out: a sequence of base-32 characters.
EncodeScaled(la, lo) ==
    LET bits == EncodeBits(la, lo, -GeoLatMax, GeoLatMax, -GeoLonMax, GeoLonMax, 0)
    IN  [i \in 1..GeoPrecision |-> CharOfBits(bits, i - 1)]

GeohashEncode(lat, lon) == EncodeScaled(lat * GeoScale, lon * GeoScale)

(***************************************************************************)
(* geohash.decode and geohash.neighbors: decode the key to its cell, step  *)
(* one cell height/width from the cell centre, and encode again.  The      *)
(* order is n, ne, e, se, s, sw, w, nw.                                    *)
(***************************************************************************)
Base32Index(c) == (CHOOSE i \in 1..32 : BASE32[i] = c) - 1

BitOf(v, j) == (v \div (2 ^ (4 - j))) % 2

KeyBits(key) ==
    [n \in 1..(5 * GeoPrecision) |->
        BitOf(Base32Index(key[((n - 1) \div 5) + 1]), (n - 1) % 5)]

RECURSIVE DecodeBox(_, _, _, _, _, _)
DecodeBox(bits, minLat, maxLat, minLon, maxLon, n) ==
    IF n = Len(bits)
    THEN [minLat |-> minLat, maxLat |-> maxLat, minLon |-> minLon, maxLon |-> maxLon]
    ELSE IF n % 2 = 0
         THEN LET mid == (maxLon + minLon) \div 2 IN
              IF bits[n + 1] = 1
              THEN DecodeBox(bits, minLat, maxLat, mid, maxLon, n + 1)
              ELSE DecodeBox(bits, minLat, maxLat, minLon, mid, n + 1)
         ELSE LET mid == (maxLat + minLat) \div 2 IN
              IF bits[n + 1] = 1
              THEN DecodeBox(bits, mid, maxLat, minLon, maxLon, n + 1)
              ELSE DecodeBox(bits, minLat, mid, minLon, maxLon, n + 1)

GeohashNeighbors(key) ==
    LET box    == DecodeBox(KeyBits(key), -GeoLatMax, GeoLatMax, -GeoLonMax, GeoLonMax, 0)
        lat    == (box.minLat + box.maxLat) \div 2
        lon    == (box.minLon + box.maxLon) \div 2
        latErr == box.maxLat - box.minLat
        lonErr == box.maxLon - box.minLon
        nb(dLat, dLon) == EncodeScaled(lat + dLat * latErr, lon + dLon * lonErr)
    IN  << nb(1, 0), nb(1, 1), nb(0, 1), nb(-1, 1),
           nb(-1, 0), nb(-1, -1), nb(0, -1), nb(1, -1) >>

\* The two library functions, tabulated once over the coordinates and keys of
\* the model.
Coords == {<<p.lat, p.long>> : p \in Points \cup LookupPoints \cup TestSupportPoints}
EncodeTable == [c \in Coords |-> GeohashEncode(c[1], c[2])]
NeighborsTable == [k \in {EncodeTable[c] : c \in Coords} |-> GeohashNeighbors(k)]

\* Lines 181-183.
computeBucketKey(lat, lon) == EncodeTable[<<lat, lon>>]

\* geohash.neighbors(bucketKey), line 87.
neighbors(bucketKey) == NeighborsTable[bucketKey]

(***************************************************************************)
(* haversineKm, in thousandths of a km (rounded up).  R = 6371 km, so 1e-4 degree *)
(* of arc is 11.1195 m.  For the arcs of the model (under 0.3 degree)      *)
(* sin x = x and asin x = x to within 2e-6, and the formula is             *)
(* R * sqrt(dLat^2 + cos(lat1) * cos(lat2) * dLon^2).                      *)
(***************************************************************************)
Abs(x) == IF x < 0 THEN -x ELSE x

\* cos of a latitude (1e-4 degree), times 10000: the Taylor series to x^6.
Cos10k(lat) ==
    LET x  == ((Abs(lat) \div 100) * 17453) \div 10000
        x2 == (x * x) \div 10000
        x4 == (x2 * x2) \div 10000
        x6 == (x4 * x2) \div 10000
    IN  10000 - (x2 \div 2) + (x4 \div 24) - (x6 \div 720)

RECURSIVE SqrtUp(_, _, _)
\* The least r in lo..hi with r * r >= n.
SqrtUp(n, lo, hi) ==
    IF lo >= hi THEN hi
    ELSE LET mid == (lo + hi) \div 2 IN
         IF mid * mid >= n THEN SqrtUp(n, lo, mid) ELSE SqrtUp(n, mid + 1, hi)

HaversineMetres(lat1, lon1, lat2, lon2) ==
    LET dLat == (Abs(lat2 - lat1) * 111195) \div 10000
        dLon == (Abs(lon2 - lon1) * 111195) \div 10000
        a    == dLat * dLat
                  + ((dLon * Cos10k(lat1)) \div 10000) * ((dLon * Cos10k(lat2)) \div 10000)
    IN  SqrtUp(a, 0, 40000)

HaversineTable ==
    [a \in Coords, b \in Coords |-> HaversineMetres(a[1], a[2], b[1], b[2])]

\* Lines 193-208.
haversineKm(lat1, lon1, lat2, lon2) == HaversineTable[<<lat1, lon1>>, <<lat2, lon2>>]

\* withinKm with the 3 km radius of the planning notes instead of maxKm.
withinKm_3km(a, b, maxKm) == haversineKm(a.lat, a.lon, b.lat, b.lon) <= 3 * 1000

\* Lines 185-191.
withinKm(a, b, maxKm) == haversineKm(a.lat, a.lon, b.lat, b.lon) <= maxKm * 1000

(***************************************************************************)
(* Math.round on a fixed-point number of tenths: round half up, toward     *)
(* positive infinity.  \div is floor division.                             *)
(***************************************************************************)
\* Rounding half away from zero: -1.5 goes to -2.
MathRound_HalfAwayFromZero(tenths) ==
    IF tenths >= 0 THEN (tenths + 5) \div 10 ELSE -((5 - tenths) \div 10)

MathRound(tenths) == (tenths + 5) \div 10

\* Lines 119-122: the summary built from a resolved response's payload.
MakeSummary(data) ==
    LET condition == IF data.main = Missing THEN "" ELSE data.main[1]
        tempC     == MathRound(IF data.temp = Missing THEN 0 ELSE data.temp[1])
        tempF     == MathRound(tempC * 18 + 320)
    IN  [condition |-> condition, tempC |-> tempC, tempF |-> tempF]

(***************************************************************************)
(* State.                                                                  *)
(***************************************************************************)
VARIABLES
    apiKey,         \* process.env.OPEN_WEATHER_API_KEY at construction (optional)
    perUserCache,   \* Map userId -> CacheEntry
    sharedCache,    \* Map BucketKey -> CacheEntry
    sharedLRU,      \* BucketKey[], in write order
    now,            \* Date.now()
    inflight,       \* request id -> the getWeather invocation suspended at its await
    netCalls,       \* requests issued so far (callCount of the test suite)
    writes,         \* history: the bucket key of every shared-cache write, in order
    ev,             \* the last step taken and what it returned to its caller
    activeSessions,      \* index.ts: userId -> sessionInfo (latestLocation, weatherCache)
    metricSystemEnabled, \* index.ts: userId -> the session's metricSystemEnabled setting
    fetchLog             \* index.ts: what fetchWeatherData logged last (lines 1064-1067)

\* The state of the dashboard server (index.ts) around the weather service.
dashboardVars == <<activeSessions, metricSystemEnabled, fetchLog>>

vars == <<apiKey, perUserCache, sharedCache, sharedLRU, now, inflight, netCalls,
          writes, ev, activeSessions, metricSystemEnabled, fetchLog>>

\* Map.get, Map.set, Map.delete on a function with a finite domain.
MapGet(m, k) == IF k \in DOMAIN m THEN Some(m[k]) ELSE Missing
\* Map.set that keeps the value of a key already present.
MapSet_KeepExisting(m, k, v) == [j \in DOMAIN m \cup {k} |-> IF j \in DOMAIN m THEN m[j] ELSE v]
MapSet(m, k, v) == [j \in DOMAIN m \cup {k} |-> IF j = k THEN v ELSE m[j]]
MapDelete(m, k) == [j \in DOMAIN m \ {k} |-> m[j]]
EmptyMap == << >>

\* IsValid with >= for >: an entry still served at the instant it expires.
IsValid_Inclusive(e, currentTime) == e # Missing /\ e[1].expiresAt >= currentTime

\* Lines 56 / 72 / 89: entry present and expiresAt > currentTime.
IsValid(e, currentTime) == e # Missing /\ e[1].expiresAt > currentTime

\* Usable without the distance test.
Usable_AnyDistance(e, lat, long, currentTime) == IsValid(e, currentTime)

\* Lines 56-63 / 72-79 / 89-96: valid and within PROXIMITY_KM of the query.
Usable(e, lat, long, currentTime) ==
    /\ IsValid(e, currentTime)
    /\ withinKm([lat |-> e[1].lat, lon |-> e[1].long], [lat |-> lat, lon |-> long],
                PROXIMITY_KM)

\* FirstNeighborHit that picks the nearest usable neighbour entry.
FirstNeighborHit_Nearest(cache, nbs, i, lat, long, currentTime) ==
    LET ok == {j \in i..Len(nbs) : Usable(MapGet(cache, nbs[j]), lat, long, currentTime)}
        d(j) == haversineKm(cache[nbs[j]].lat, cache[nbs[j]].long, lat, long)
    IN  IF ok = {} THEN 0 ELSE CHOOSE j \in ok : \A h \in ok : d(j) <= d(h)

RECURSIVE FirstNeighborHit(_, _, _, _, _, _)
\* Lines 87-105: the first neighbour, in enumeration order from index i, whose
\* shared entry is usable; 0 when there is none.
FirstNeighborHit(cache, nbs, i, lat, long, currentTime) ==
    IF i > Len(nbs) THEN 0
    ELSE IF Usable(MapGet(cache, nbs[i]), lat, long, currentTime) THEN i
    ELSE FirstNeighborHit(cache, nbs, i + 1, lat, long, currentTime)

\* RemoveFirst that removes nothing: the key's earlier position stays.
RemoveFirst_None(seq, k) == seq

\* Array.indexOf + splice(idx, 1): drop the first occurrence of k.
RECURSIVE RemoveFirst(_, _)
RemoveFirst(seq, k) ==
    IF seq = << >> THEN << >>
    ELSE IF Head(seq) = k THEN Tail(seq)
    ELSE <<Head(seq)>> \o RemoveFirst(Tail(seq), k)

RECURSIVE EvictLoop_Pop(_, _)
\* EvictLoop with pop() for shift(): the key written last goes first.
EvictLoop_Pop(cache, lru) ==
    IF Len(lru) > MAX_SHARED_CACHE_ENTRIES
    THEN EvictLoop_Pop(MapDelete(cache, lru[Len(lru)]), SubSeq(lru, 1, Len(lru) - 1))
    ELSE [cache |-> cache, lru |-> lru]

RECURSIVE EvictLoop_ExpiredFirst(_, _)
\* EvictLoop that looks at expiresAt: an expired entry goes before a valid one.
EvictLoop_ExpiredFirst(cache, lru) ==
    IF Len(lru) > MAX_SHARED_CACHE_ENTRIES
    THEN LET expired == {i \in 1..Len(lru) : cache[lru[i]].expiresAt <= now}
             i == IF expired = {} THEN 1
                  ELSE CHOOSE x \in expired : \A y \in expired : x <= y
         IN  EvictLoop_ExpiredFirst(MapDelete(cache, lru[i]),
                                    SubSeq(lru, 1, i - 1) \o SubSeq(lru, i + 1, Len(lru)))
    ELSE [cache |-> cache, lru |-> lru]

RECURSIVE EvictLoop_KeepSlot(_, _)
\* EvictLoop that shifts the key off the sequence and leaves its slot in the map.
EvictLoop_KeepSlot(cache, lru) ==
    IF Len(lru) > MAX_SHARED_CACHE_ENTRIES
    THEN EvictLoop_KeepSlot(cache, Tail(lru))
    ELSE [cache |-> cache, lru |-> lru]

RECURSIVE EvictLoop(_, _)
\* Lines 174-177: shift keys off the front while the sequence is too long.
EvictLoop(cache, lru) ==
    IF Len(lru) > MAX_SHARED_CACHE_ENTRIES
    THEN EvictLoop(MapDelete(cache, Head(lru)), Tail(lru))
    ELSE [cache |-> cache, lru |-> lru]

\* upsertSharedCache that leaves an occupied slot as it is.
upsertSharedCache_KeepOld(cache, lru, entry) ==
    IF entry.bucketKey \in DOMAIN cache
    THEN [cache |-> cache, lru |-> lru]
    ELSE EvictLoop(MapSet(cache, entry.bucketKey, entry),
                   Append(lru, entry.bucketKey))

\* Lines 169-178.
upsertSharedCache(cache, lru, entry) ==
    EvictLoop(MapSet(cache, entry.bucketKey, entry),
              Append(RemoveFirst(lru, entry.bucketKey), entry.bucketKey))

\* What a step reports: the operation, the invocation it belongs to, the tier
\* that answered, and the value (or exception) handed to the caller, if any.
NoCall == [id |-> 0, userId |-> "", lat |-> 0, long |-> 0,
           logger |-> "", currentTime |-> 0, bucketKey |-> << >>]

\* What the caller of getWeather gets at a step: nothing yet, a summary, null,
\* or an exception.
Nothing == [kind |-> "none", summary |-> Missing]
Pending == [kind |-> "pending", summary |-> Missing]
Null == [kind |-> "null", summary |-> Missing]
Throws == [kind |-> "throw", summary |-> Missing]
Returns(summary) == [kind |-> "summary", summary |-> Some(summary)]

Event(op, call, tier, result) ==
    [op |-> op, call |-> call, tier |-> tier, result |-> result]

Init ==
    /\ apiKey \in {Some("test-key"), Missing}
    /\ perUserCache = EmptyMap
    /\ sharedCache = EmptyMap
    /\ sharedLRU = << >>
    /\ now = 0
    /\ inflight = EmptyMap
    /\ netCalls = 0
    /\ writes = << >>
    /\ ev = Event("init", NoCall, "none", Nothing)
    /\ activeSessions = [u \in Users |-> [latestLocation |-> Missing, weatherCache |-> Missing]]
    /\ metricSystemEnabled = [u \in Users |-> FALSE]
    /\ fetchLog = [userId |-> "", lat |-> 0, lng |-> 0, forceUpdate |-> FALSE]

\* NoApiKey with the check left out.
NoApiKey_Unchecked(key) == FALSE

\* Line 108: !this.apiKey.
NoApiKey(key) == key = Missing

\* MakeEntry that counts the lifetime from the arrival of the response.
MakeEntry_FromArrival(call, summary) ==
    [bucketKey |-> call.bucketKey,
     lat |-> call.lat,
     long |-> call.long,
     weatherSummary |-> summary,
     fetchedAt |-> call.currentTime,
     expiresAt |-> now + FRESH_TTL_MS]

\* Lines 124-131: the entry built from a resolved response.
MakeEntry(call, summary) ==
    [bucketKey |-> call.bucketKey,
     lat |-> call.lat,
     long |-> call.long,
     weatherSummary |-> summary,
     fetchedAt |-> call.currentTime,
     expiresAt |-> call.currentTime + FRESH_TTL_MS]

\* getWeather that serves the entry of the caller's slot, expired or not, when
\* no tier answers (stale on miss).
getWeather_ServeStale(session, lat, long) ==
    LET logger      == session.logger
        userId      == session.userId
        currentTime == now
        userEntry   == MapGet(perUserCache, userId)
        bucketKey   == computeBucketKey(lat, long)
        sharedEntry == MapGet(sharedCache, bucketKey)
        nbs         == neighbors(bucketKey)
        nb          == FirstNeighborHit(sharedCache, nbs, 1, lat, long, currentTime)
        call(id)    == [id |-> id, userId |-> userId, lat |-> lat, long |-> long,
                        logger |-> logger, currentTime |-> currentTime,
                        bucketKey |-> bucketKey]
    IN
    IF Usable(userEntry, lat, long, currentTime)
    THEN /\ ev' = Event("getWeather", call(0), "user",
                    Returns(userEntry[1].weatherSummary))
         /\ UNCHANGED <<apiKey, perUserCache, sharedCache, sharedLRU, now,
                        inflight, netCalls, writes>>
    ELSE IF Usable(sharedEntry, lat, long, currentTime)
    THEN /\ perUserCache' = MapSet(perUserCache, userId, sharedEntry[1])
         /\ ev' = Event("getWeather", call(0), "shared",
                        Returns(sharedEntry[1].weatherSummary))
         /\ UNCHANGED <<apiKey, sharedCache, sharedLRU, now, inflight, netCalls,
                        writes>>
    ELSE IF nb # 0
    THEN LET e == sharedCache[nbs[nb]] IN
         /\ perUserCache' = MapSet(perUserCache, userId, e)
         /\ ev' = Event("getWeather", call(0), "neighbor", Returns(e.weatherSummary))
         /\ UNCHANGED <<apiKey, sharedCache, sharedLRU, now, inflight, netCalls,
                        writes>>
    ELSE IF userEntry # Missing
    THEN /\ ev' = Event("getWeather", call(0), "user",
                    Returns(userEntry[1].weatherSummary))
         /\ UNCHANGED <<apiKey, perUserCache, sharedCache, sharedLRU, now,
                        inflight, netCalls, writes>>
    ELSE IF NoApiKey(apiKey)
    THEN /\ ev' = Event("getWeather", call(0), "nokey", Null)
         /\ UNCHANGED <<apiKey, perUserCache, sharedCache, sharedLRU, now,
                        inflight, netCalls, writes>>
    ELSE /\ netCalls' = netCalls + 1
         /\ inflight' = MapSet(inflight, netCalls + 1, call(netCalls + 1))
         /\ ev' = Event("getWeather", call(netCalls + 1), "request", Pending)
         /\ UNCHANGED <<apiKey, perUserCache, sharedCache, sharedLRU, now, writes>>

\* getWeather whose per-user tier tests the cell, not the distance: the entry of
\* the caller's slot answers when its bucket is the bucket of the query or one of
\* its neighbours.
getWeather_SameCell(session, lat, long) ==
    LET logger      == session.logger
        userId      == session.userId
        currentTime == now
        userEntry   == MapGet(perUserCache, userId)
        bucketKey   == computeBucketKey(lat, long)
        sharedEntry == MapGet(sharedCache, bucketKey)
        nbs         == neighbors(bucketKey)
        nb          == FirstNeighborHit(sharedCache, nbs, 1, lat, long, currentTime)
        call(id)    == [id |-> id, userId |-> userId, lat |-> lat, long |-> long,
                        logger |-> logger, currentTime |-> currentTime,
                        bucketKey |-> bucketKey]
    IN
    IF /\ IsValid(userEntry, currentTime)
       /\ \/ userEntry[1].bucketKey = bucketKey
          \/ \E i \in 1..8 : nbs[i] = userEntry[1].bucketKey
    THEN /\ ev' = Event("getWeather", call(0), "user",
                    Returns(userEntry[1].weatherSummary))
         /\ UNCHANGED <<apiKey, perUserCache, sharedCache, sharedLRU, now,
                        inflight, netCalls, writes>>
    ELSE IF Usable(sharedEntry, lat, long, currentTime)
    THEN /\ perUserCache' = MapSet(perUserCache, userId, sharedEntry[1])
         /\ ev' = Event("getWeather", call(0), "shared",
                        Returns(sharedEntry[1].weatherSummary))
         /\ UNCHANGED <<apiKey, sharedCache, sharedLRU, now, inflight, netCalls,
                        writes>>
    ELSE IF nb # 0
    THEN LET e == sharedCache[nbs[nb]] IN
         /\ perUserCache' = MapSet(perUserCache, userId, e)
         /\ ev' = Event("getWeather", call(0), "neighbor", Returns(e.weatherSummary))
         /\ UNCHANGED <<apiKey, sharedCache, sharedLRU, now, inflight, netCalls,
                        writes>>
    ELSE IF NoApiKey(apiKey)
    THEN /\ ev' = Event("getWeather", call(0), "nokey", Null)
         /\ UNCHANGED <<apiKey, perUserCache, sharedCache, sharedLRU, now,
                        inflight, netCalls, writes>>
    ELSE /\ netCalls' = netCalls + 1
         /\ inflight' = MapSet(inflight, netCalls + 1, call(netCalls + 1))
         /\ ev' = Event("getWeather", call(netCalls + 1), "request", Pending)
         /\ UNCHANGED <<apiKey, perUserCache, sharedCache, sharedLRU, now, writes>>

\* getWeather that prefers fresher shared data: the caller's own entry answers
\* only when the shared slot of the query's bucket holds no usable entry that
\* was fetched later.
getWeather_FresherShared(session, lat, long) ==
    LET logger      == session.logger
        userId      == session.userId
        currentTime == now
        userEntry   == MapGet(perUserCache, userId)
        bucketKey   == computeBucketKey(lat, long)
        sharedEntry == MapGet(sharedCache, bucketKey)
        nbs         == neighbors(bucketKey)
        nb          == FirstNeighborHit(sharedCache, nbs, 1, lat, long, currentTime)
        call(id)    == [id |-> id, userId |-> userId, lat |-> lat, long |-> long,
                        logger |-> logger, currentTime |-> currentTime,
                        bucketKey |-> bucketKey]
    IN
    IF /\ Usable(userEntry, lat, long, currentTime)
       /\ ~(/\ Usable(sharedEntry, lat, long, currentTime)
            /\ sharedEntry[1].fetchedAt > userEntry[1].fetchedAt)
    THEN /\ ev' = Event("getWeather", call(0), "user",
                    Returns(userEntry[1].weatherSummary))
         /\ UNCHANGED <<apiKey, perUserCache, sharedCache, sharedLRU, now,
                        inflight, netCalls, writes>>
    ELSE IF Usable(sharedEntry, lat, long, currentTime)
    THEN /\ perUserCache' = MapSet(perUserCache, userId, sharedEntry[1])
         /\ ev' = Event("getWeather", call(0), "shared",
                        Returns(sharedEntry[1].weatherSummary))
         /\ UNCHANGED <<apiKey, sharedCache, sharedLRU, now, inflight, netCalls,
                        writes>>
    ELSE IF nb # 0
    THEN LET e == sharedCache[nbs[nb]] IN
         /\ perUserCache' = MapSet(perUserCache, userId, e)
         /\ ev' = Event("getWeather", call(0), "neighbor", Returns(e.weatherSummary))
         /\ UNCHANGED <<apiKey, sharedCache, sharedLRU, now, inflight, netCalls,
                        writes>>
    ELSE IF NoApiKey(apiKey)
    THEN /\ ev' = Event("getWeather", call(0), "nokey", Null)
         /\ UNCHANGED <<apiKey, perUserCache, sharedCache, sharedLRU, now,
                        inflight, netCalls, writes>>
    ELSE /\ netCalls' = netCalls + 1
         /\ inflight' = MapSet(inflight, netCalls + 1, call(netCalls + 1))
         /\ ev' = Event("getWeather", call(netCalls + 1), "request", Pending)
         /\ UNCHANGED <<apiKey, perUserCache, sharedCache, sharedLRU, now, writes>>

\* getWeather whose hydration from a neighbour cell files the copy under the
\* bucket of the query.
getWeather_Rekey(session, lat, long) ==
    LET logger      == session.logger
        userId      == session.userId
        currentTime == now
        userEntry   == MapGet(perUserCache, userId)
        bucketKey   == computeBucketKey(lat, long)
        sharedEntry == MapGet(sharedCache, bucketKey)
        nbs         == neighbors(bucketKey)
        nb          == FirstNeighborHit(sharedCache, nbs, 1, lat, long, currentTime)
        call(id)    == [id |-> id, userId |-> userId, lat |-> lat, long |-> long,
                        logger |-> logger, currentTime |-> currentTime,
                        bucketKey |-> bucketKey]
    IN
    IF Usable(userEntry, lat, long, currentTime)
    THEN /\ ev' = Event("getWeather", call(0), "user",
                    Returns(userEntry[1].weatherSummary))
         /\ UNCHANGED <<apiKey, perUserCache, sharedCache, sharedLRU, now,
                        inflight, netCalls, writes>>
    ELSE IF Usable(sharedEntry, lat, long, currentTime)
    THEN /\ perUserCache' = MapSet(perUserCache, userId, sharedEntry[1])
         /\ ev' = Event("getWeather", call(0), "shared",
                        Returns(sharedEntry[1].weatherSummary))
         /\ UNCHANGED <<apiKey, sharedCache, sharedLRU, now, inflight, netCalls,
                        writes>>
    ELSE IF nb # 0
    THEN LET e == sharedCache[nbs[nb]] IN
         /\ perUserCache' = MapSet(perUserCache, userId, [e EXCEPT !.bucketKey = bucketKey])
         /\ ev' = Event("getWeather", call(0), "neighbor", Returns(e.weatherSummary))
         /\ UNCHANGED <<apiKey, sharedCache, sharedLRU, now, inflight, netCalls,
                        writes>>
    ELSE IF NoApiKey(apiKey)
    THEN /\ ev' = Event("getWeather", call(0), "nokey", Null)
         /\ UNCHANGED <<apiKey, perUserCache, sharedCache, sharedLRU, now,
                        inflight, netCalls, writes>>
    ELSE /\ netCalls' = netCalls + 1
         /\ inflight' = MapSet(inflight, netCalls + 1, call(netCalls + 1))
         /\ ev' = Event("getWeather", call(netCalls + 1), "request", Pending)
         /\ UNCHANGED <<apiKey, perUserCache, sharedCache, sharedLRU, now, writes>>

\* getWeather whose hydration stamps the copy with the caller's coordinate and
\* the time of the call.
getWeather_Restamp(session, lat, long) ==
    LET logger      == session.logger
        userId      == session.userId
        currentTime == now
        userEntry   == MapGet(perUserCache, userId)
        bucketKey   == computeBucketKey(lat, long)
        sharedEntry == MapGet(sharedCache, bucketKey)
        nbs         == neighbors(bucketKey)
        nb          == FirstNeighborHit(sharedCache, nbs, 1, lat, long, currentTime)
        call(id)    == [id |-> id, userId |-> userId, lat |-> lat, long |-> long,
                        logger |-> logger, currentTime |-> currentTime,
                        bucketKey |-> bucketKey]
    IN
    IF Usable(userEntry, lat, long, currentTime)
    THEN /\ ev' = Event("getWeather", call(0), "user",
                    Returns(userEntry[1].weatherSummary))
         /\ UNCHANGED <<apiKey, perUserCache, sharedCache, sharedLRU, now,
                        inflight, netCalls, writes>>
    ELSE IF Usable(sharedEntry, lat, long, currentTime)
    THEN /\ perUserCache' = MapSet(perUserCache, userId,
                                [sharedEntry[1] EXCEPT !.lat = lat, !.long = long,
                                                       !.fetchedAt = currentTime,
                                                       !.expiresAt = currentTime + FRESH_TTL_MS])
         /\ ev' = Event("getWeather", call(0), "shared",
                        Returns(sharedEntry[1].weatherSummary))
         /\ UNCHANGED <<apiKey, sharedCache, sharedLRU, now, inflight, netCalls,
                        writes>>
    ELSE IF nb # 0
    THEN LET e == sharedCache[nbs[nb]] IN
         /\ perUserCache' = MapSet(perUserCache, userId,
                                [e EXCEPT !.lat = lat, !.long = long,
                                          !.fetchedAt = currentTime,
                                          !.expiresAt = currentTime + FRESH_TTL_MS])
         /\ ev' = Event("getWeather", call(0), "neighbor", Returns(e.weatherSummary))
         /\ UNCHANGED <<apiKey, sharedCache, sharedLRU, now, inflight, netCalls,
                        writes>>
    ELSE IF NoApiKey(apiKey)
    THEN /\ ev' = Event("getWeather", call(0), "nokey", Null)
         /\ UNCHANGED <<apiKey, perUserCache, sharedCache, sharedLRU, now,
                        inflight, netCalls, writes>>
    ELSE /\ netCalls' = netCalls + 1
         /\ inflight' = MapSet(inflight, netCalls + 1, call(netCalls + 1))
         /\ ev' = Event("getWeather", call(netCalls + 1), "request", Pending)
         /\ UNCHANGED <<apiKey, perUserCache, sharedCache, sharedLRU, now, writes>>

\* getWeather as a true LRU would have it: a hit on the shared tier moves the
\* bucket read to the most-recent end of sharedLRU.
getWeather_TouchOnRead(session, lat, long) ==
    LET logger      == session.logger
        userId      == session.userId
        currentTime == now
        userEntry   == MapGet(perUserCache, userId)
        bucketKey   == computeBucketKey(lat, long)
        sharedEntry == MapGet(sharedCache, bucketKey)
        nbs         == neighbors(bucketKey)
        nb          == FirstNeighborHit(sharedCache, nbs, 1, lat, long, currentTime)
        call(id)    == [id |-> id, userId |-> userId, lat |-> lat, long |-> long,
                        logger |-> logger, currentTime |-> currentTime,
                        bucketKey |-> bucketKey]
    IN
    IF Usable(userEntry, lat, long, currentTime)
    THEN /\ ev' = Event("getWeather", call(0), "user",
                    Returns(userEntry[1].weatherSummary))
         /\ UNCHANGED <<apiKey, perUserCache, sharedCache, sharedLRU, now,
                        inflight, netCalls, writes>>
    ELSE IF Usable(sharedEntry, lat, long, currentTime)
    THEN /\ perUserCache' = MapSet(perUserCache, userId, sharedEntry[1])
         /\ sharedLRU' = Append(RemoveFirst(sharedLRU, bucketKey), bucketKey)
         /\ ev' = Event("getWeather", call(0), "shared",
                        Returns(sharedEntry[1].weatherSummary))
         /\ UNCHANGED <<apiKey, sharedCache, now, inflight, netCalls, writes>>
    ELSE IF nb # 0
    THEN LET e == sharedCache[nbs[nb]] IN
         /\ perUserCache' = MapSet(perUserCache, userId, e)
         /\ sharedLRU' = Append(RemoveFirst(sharedLRU, nbs[nb]), nbs[nb])
         /\ ev' = Event("getWeather", call(0), "neighbor", Returns(e.weatherSummary))
         /\ UNCHANGED <<apiKey, sharedCache, now, inflight, netCalls, writes>>
    ELSE IF NoApiKey(apiKey)
    THEN /\ ev' = Event("getWeather", call(0), "nokey", Null)
         /\ UNCHANGED <<apiKey, perUserCache, sharedCache, sharedLRU, now,
                        inflight, netCalls, writes>>
    ELSE /\ netCalls' = netCalls + 1
         /\ inflight' = MapSet(inflight, netCalls + 1, call(netCalls + 1))
         /\ ev' = Event("getWeather", call(netCalls + 1), "request", Pending)
         /\ UNCHANGED <<apiKey, perUserCache, sharedCache, sharedLRU, now, writes>>

\* getWeather that coalesces: a miss joins a request already outstanding for
\* the same user and bucket instead of issuing its own.
getWeather_Coalesced(session, lat, long) ==
    LET logger      == session.logger
        userId      == session.userId
        currentTime == now
        userEntry   == MapGet(perUserCache, userId)
        bucketKey   == computeBucketKey(lat, long)
        sharedEntry == MapGet(sharedCache, bucketKey)
        nbs         == neighbors(bucketKey)
        nb          == FirstNeighborHit(sharedCache, nbs, 1, lat, long, currentTime)
        call(id)    == [id |-> id, userId |-> userId, lat |-> lat, long |-> long,
                        logger |-> logger, currentTime |-> currentTime,
                        bucketKey |-> bucketKey]
        twins       == {id \in DOMAIN inflight :
                           /\ inflight[id].userId = userId
                           /\ inflight[id].bucketKey = bucketKey}
    IN
    IF Usable(userEntry, lat, long, currentTime)
    THEN /\ ev' = Event("getWeather", call(0), "user",
                    Returns(userEntry[1].weatherSummary))
         /\ UNCHANGED <<apiKey, perUserCache, sharedCache, sharedLRU, now,
                        inflight, netCalls, writes>>
    ELSE IF Usable(sharedEntry, lat, long, currentTime)
    THEN /\ perUserCache' = MapSet(perUserCache, userId, sharedEntry[1])
         /\ ev' = Event("getWeather", call(0), "shared",
                        Returns(sharedEntry[1].weatherSummary))
         /\ UNCHANGED <<apiKey, sharedCache, sharedLRU, now, inflight, netCalls,
                        writes>>
    ELSE IF nb # 0
    THEN LET e == sharedCache[nbs[nb]] IN
         /\ perUserCache' = MapSet(perUserCache, userId, e)
         /\ ev' = Event("getWeather", call(0), "neighbor", Returns(e.weatherSummary))
         /\ UNCHANGED <<apiKey, sharedCache, sharedLRU, now, inflight, netCalls,
                        writes>>
    ELSE IF NoApiKey(apiKey)
    THEN /\ ev' = Event("getWeather", call(0), "nokey", Null)
         /\ UNCHANGED <<apiKey, perUserCache, sharedCache, sharedLRU, now,
                        inflight, netCalls, writes>>
    ELSE IF twins # {}
    THEN /\ ev' = Event("getWeather", inflight[CHOOSE id \in twins : TRUE],
                        "request", Pending)
         /\ UNCHANGED <<apiKey, perUserCache, sharedCache, sharedLRU, now,
                        inflight, netCalls, writes>>
    ELSE /\ netCalls' = netCalls + 1
         /\ inflight' = MapSet(inflight, netCalls + 1, call(netCalls + 1))
         /\ ev' = Event("getWeather", call(netCalls + 1), "request", Pending)
         /\ UNCHANGED <<apiKey, perUserCache, sharedCache, sharedLRU, now, writes>>

(***************************************************************************)
(* getWeather(session, lat, long), lines 45-114: the synchronous part, up  *)
(* to the await of the request.                                            *)
(***************************************************************************)
getWeather(session, lat, long) ==
    LET logger      == session.logger
        userId      == session.userId
        currentTime == now
        userEntry   == MapGet(perUserCache, userId)
        bucketKey   == computeBucketKey(lat, long)
        sharedEntry == MapGet(sharedCache, bucketKey)
        nbs         == neighbors(bucketKey)
        nb          == FirstNeighborHit(sharedCache, nbs, 1, lat, long, currentTime)
        call(id)    == [id |-> id, userId |-> userId, lat |-> lat, long |-> long,
                        logger |-> logger, currentTime |-> currentTime,
                        bucketKey |-> bucketKey]
    IN
    IF Usable(userEntry, lat, long, currentTime)
    THEN /\ ev' = Event("getWeather", call(0), "user",
                    Returns(userEntry[1].weatherSummary))
         /\ UNCHANGED <<apiKey, perUserCache, sharedCache, sharedLRU, now,
                        inflight, netCalls, writes>>
    ELSE IF Usable(sharedEntry, lat, long, currentTime)
    THEN /\ perUserCache' = MapSet(perUserCache, userId, sharedEntry[1])
         /\ ev' = Event("getWeather", call(0), "shared",
                        Returns(sharedEntry[1].weatherSummary))
         /\ UNCHANGED <<apiKey, sharedCache, sharedLRU, now, inflight, netCalls,
                        writes>>
    ELSE IF nb # 0
    THEN LET e == sharedCache[nbs[nb]] IN
         /\ perUserCache' = MapSet(perUserCache, userId, e)
         /\ ev' = Event("getWeather", call(0), "neighbor", Returns(e.weatherSummary))
         /\ UNCHANGED <<apiKey, sharedCache, sharedLRU, now, inflight, netCalls,
                        writes>>
    ELSE IF NoApiKey(apiKey)
    THEN /\ ev' = Event("getWeather", call(0), "nokey", Null)
         /\ UNCHANGED <<apiKey, perUserCache, sharedCache, sharedLRU, now,
                        inflight, netCalls, writes>>
    ELSE /\ netCalls' = netCalls + 1
         /\ inflight' = MapSet(inflight, netCalls + 1, call(netCalls + 1))
         /\ ev' = Event("getWeather", call(netCalls + 1), "request", Pending)
         /\ UNCHANGED <<apiKey, perUserCache, sharedCache, sharedLRU, now, writes>>

\* Respond that retries: a rejected request is issued again for the same
\* invocation.
Respond_Retry(id, r) ==
    /\ id \in DOMAIN inflight
    /\ LET c == inflight[id] IN
       IF r.kind = "ok"
       THEN LET summary == MakeSummary(r.data)
                entry   == MakeEntry(c, summary)
                up      == upsertSharedCache(sharedCache, sharedLRU, entry)
            IN  /\ inflight' = MapDelete(inflight, id)
                /\ sharedCache' = up.cache
                /\ sharedLRU' = up.lru
                /\ perUserCache' = MapSet(perUserCache, c.userId, entry)
                /\ writes' = Append(writes, entry.bucketKey)
                /\ ev' = Event("response", c, "network", Returns(summary))
                /\ UNCHANGED netCalls
       ELSE /\ netCalls' = netCalls + 1
            /\ ev' = Event("response", c, "failed", Pending)
            /\ UNCHANGED <<inflight, perUserCache, sharedCache, sharedLRU, writes>>
    /\ UNCHANGED <<apiKey, now>>

\* Respond that looks at the cache again after the await: when the slot of the
\* bucket has been filled meanwhile, the entry found there is kept and handed
\* to the caller's slot.
Respond_Recheck(id, r) ==
    /\ id \in DOMAIN inflight
    /\ LET c == inflight[id] IN
       /\ inflight' = MapDelete(inflight, id)
       /\ IF r.kind = "ok"
          THEN LET summary == MakeSummary(r.data)
                   found   == MapGet(sharedCache, c.bucketKey)
                   entry   == IF IsValid(found, now) THEN found[1]
                              ELSE MakeEntry(c, summary)
                   up      == upsertSharedCache(sharedCache, sharedLRU, entry)
               IN  /\ sharedCache' = up.cache
                   /\ sharedLRU' = up.lru
                   /\ perUserCache' = MapSet(perUserCache, c.userId, entry)
                   /\ writes' = Append(writes, entry.bucketKey)
                   /\ ev' = Event("response", c, "network", Returns(summary))
          ELSE /\ ev' = Event("response", c, "failed",
                              IF c.logger = "full" THEN Null ELSE Throws)
               /\ UNCHANGED <<perUserCache, sharedCache, sharedLRU, writes>>
    /\ UNCHANGED <<apiKey, now, netCalls>>

\* Respond whose write drops, from the per-user cache too, every entry that is
\* no longer in the shared cache after the upsert.
Respond_EvictUserSlots(id, r) ==
    /\ id \in DOMAIN inflight
    /\ LET c == inflight[id] IN
       /\ inflight' = MapDelete(inflight, id)
       /\ IF r.kind = "ok"
          THEN LET summary == MakeSummary(r.data)
                   entry   == MakeEntry(c, summary)
                   up      == upsertSharedCache(sharedCache, sharedLRU, entry)
                   set     == MapSet(perUserCache, c.userId, entry)
               IN  /\ sharedCache' = up.cache
                   /\ sharedLRU' = up.lru
                   /\ perUserCache' =
                         [u \in {v \in DOMAIN set :
                                    set[v].bucketKey \in DOMAIN up.cache} |-> set[u]]
                   /\ writes' = Append(writes, entry.bucketKey)
                   /\ ev' = Event("response", c, "network", Returns(summary))
          ELSE /\ ev' = Event("response", c, "failed",
                              IF c.logger = "full" THEN Null ELSE Throws)
               /\ UNCHANGED <<perUserCache, sharedCache, sharedLRU, writes>>
    /\ UNCHANGED <<apiKey, now, netCalls>>

\* Respond that writes the new entry into every occupied per-user slot.
Respond_Broadcast(id, r) ==
    /\ id \in DOMAIN inflight
    /\ LET c == inflight[id] IN
       /\ inflight' = MapDelete(inflight, id)
       /\ IF r.kind = "ok"
          THEN LET summary == MakeSummary(r.data)
                   entry   == MakeEntry(c, summary)
                   up      == upsertSharedCache(sharedCache, sharedLRU, entry)
               IN  /\ sharedCache' = up.cache
                   /\ sharedLRU' = up.lru
                   /\ perUserCache' =
                         [u \in DOMAIN perUserCache \cup {c.userId} |-> entry]
                   /\ writes' = Append(writes, entry.bucketKey)
                   /\ ev' = Event("response", c, "network", Returns(summary))
          ELSE /\ ev' = Event("response", c, "failed",
                              IF c.logger = "full" THEN Null ELSE Throws)
               /\ UNCHANGED <<perUserCache, sharedCache, sharedLRU, writes>>
    /\ UNCHANGED <<apiKey, now, netCalls>>

(***************************************************************************)
(* getWeather, lines 116-143: the request of invocation id settles with    *)
(* response r and the invocation resumes.                                  *)
(***************************************************************************)
Respond(id, r) ==
    /\ id \in DOMAIN inflight
    /\ LET c == inflight[id] IN
       /\ inflight' = MapDelete(inflight, id)
       /\ IF r.kind = "ok"
          THEN LET summary == MakeSummary(r.data)
                   entry   == MakeEntry(c, summary)
                   up      == upsertSharedCache(sharedCache, sharedLRU, entry)
               IN  /\ sharedCache' = up.cache
                   /\ sharedLRU' = up.lru
                   /\ perUserCache' = MapSet(perUserCache, c.userId, entry)
                   /\ writes' = Append(writes, entry.bucketKey)
                   /\ ev' = Event("response", c, "network", Returns(summary))
          ELSE \* catch (err): session.logger.child(...) is not a function on
               \* a plain logger, and the TypeError leaves the catch block.
               /\ ev' = Event("response", c, "failed",
                              IF c.logger = "full" THEN Null ELSE Throws)
               /\ UNCHANGED <<perUserCache, sharedCache, sharedLRU, writes>>
    /\ UNCHANGED <<apiKey, now, netCalls>>

\* clearUser that empties the whole per-user cache.
clearUser_All(userId) ==
    /\ perUserCache' = EmptyMap
    /\ ev' = Event("clearUser", [NoCall EXCEPT !.userId = userId],
                   IF userId \in DOMAIN perUserCache THEN "removed" ELSE "none",
                   Nothing)
    /\ UNCHANGED <<apiKey, sharedCache, sharedLRU, now, inflight, netCalls, writes>>

\* Lines 146-148.  Map.delete tells whether the key was there; the step
\* reports it.
clearUser(userId) ==
    /\ perUserCache' = MapDelete(perUserCache, userId)
    /\ ev' = Event("clearUser", [NoCall EXCEPT !.userId = userId],
                   IF userId \in DOMAIN perUserCache THEN "removed" ELSE "none",
                   Nothing)
    /\ UNCHANGED <<apiKey, sharedCache, sharedLRU, now, inflight, netCalls, writes>>

\* Date.now() moves on.
Tick(t) ==
    /\ t > now
    /\ now' = t
    /\ ev' = Event("tick", NoCall, "none", Nothing)
    /\ UNCHANGED <<apiKey, perUserCache, sharedCache, sharedLRU, inflight, netCalls,
                   writes>>

GetWeatherStep ==
    \E s \in Sessions, p \in CorePoints :
        getWeather(s, p.lat, p.long) /\ netCalls' <= MaxCalls /\ UNCHANGED dashboardVars
RespondStep ==
    \E id \in DOMAIN inflight, r \in CoreResponses :
        Respond(id, r) /\ UNCHANGED dashboardVars
ClearUserStep == \E u \in Users : clearUser(u) /\ UNCHANGED dashboardVars
TickStep == \E t \in Instants : Tick(t) /\ UNCHANGED dashboardVars

Next == GetWeatherStep \/ RespondStep \/ ClearUserStep \/ TickStep

Spec == Init /\ [][Next]_vars

(***************************************************************************)
(* The service with its upstream answering: every request that was issued  *)
(* (line 117) is eventually settled, axios.get resolving or rejecting.     *)
(* Nothing is assumed of callers or of the clock.                          *)
(***************************************************************************)
Completes(id) == \E r \in CoreResponses : Respond(id, r) /\ UNCHANGED dashboardVars

SpecFair == Init /\ [][Next]_vars /\ \A id \in 1..MaxCalls : WF_vars(Completes(id))

(***************************************************************************)
(* The same service driven past the capacity of the shared cache: more     *)
(* requests, every one answered by the same well-formed payload or by an   *)
(* error, with the credential configured and the clock at rest.            *)
(***************************************************************************)
CapacityInit == Init /\ apiKey # Missing

CapacityGetWeatherStep ==
    \E s \in Sessions, p \in CapacityPoints :
        /\ getWeather(s, p.lat, p.long)
        /\ netCalls' <= MaxCapacityCalls
        /\ Cardinality(DOMAIN inflight') <= MaxCapacityInflight
        /\ UNCHANGED dashboardVars

CapacityRespondStep ==
    \E id \in DOMAIN inflight :
        \E r \in {x \in Responses : x.kind = "ok" => x.data \in WellFormed} :
            Respond(id, r) /\ UNCHANGED dashboardVars

CapacityNext == CapacityGetWeatherStep \/ CapacityRespondStep \/ ClearUserStep

SpecCapacity == CapacityInit /\ [][CapacityNext]_vars

(***************************************************************************)
(* The service fed every upstream reading of a range: one coordinate, the  *)
(* credential configured, every response a resolved one whose current.temp *)
(* is any number of tenths in -MaxReading..MaxReading.                     *)
(***************************************************************************)
Readings == (-MaxReading)..MaxReading

RoundingResponses ==
    {[kind |-> "ok", data |-> [main |-> Some("Clear"), temp |-> Some(t)]] : t \in Readings}

RoundingInit == Init /\ apiKey # Missing

RoundingGetWeatherStep ==
    \E s \in Sessions :
        /\ getWeather(s, P0.lat, P0.long)
        /\ netCalls' <= MaxRoundingCalls
        /\ UNCHANGED dashboardVars

RoundingRespondStep ==
    \E id \in DOMAIN inflight, r \in RoundingResponses :
        Respond(id, r) /\ UNCHANGED dashboardVars

RoundingNext == RoundingGetWeatherStep \/ RoundingRespondStep

SpecRounding == RoundingInit /\ [][RoundingNext]_vars

(***************************************************************************)
(* The service queried around a corner of a cell, where the query's cell   *)
(* and two of its neighbours can all hold an entry in range.               *)
(***************************************************************************)
LookupInit == Init

LookupGetWeatherStep ==
    \E s \in Sessions, p \in LookupPoints :
        /\ getWeather(s, p.lat, p.long)
        /\ netCalls' <= MaxLookupCalls
        /\ UNCHANGED dashboardVars

LookupRespondStep ==
    \E id \in DOMAIN inflight :
        \E r \in {x \in Responses : x.kind = "ok" => x.data \in WellFormed} :
            Respond(id, r) /\ UNCHANGED dashboardVars

LookupNext == LookupGetWeatherStep \/ LookupRespondStep \/ TickStep

SpecLookup == LookupInit /\ [][LookupNext]_vars

(***************************************************************************)
(* The service driven past the capacity of the shared cache while the      *)
(* clock moves: three coordinates in three buckets, more than 5 km from    *)
(* one another, so that entries expire, are overwritten and are evicted.   *)
(***************************************************************************)
EvictionPoints == {P0, N67, EastOfCorner}

EvictionInit == Init /\ apiKey # Missing

EvictionGetWeatherStep ==
    \E s \in Sessions, p \in EvictionPoints :
        /\ getWeather(s, p.lat, p.long)
        /\ netCalls' <= MaxEvictionCalls
        /\ UNCHANGED dashboardVars

EvictionRespondStep ==
    \E id \in DOMAIN inflight :
        \E r \in {x \in Responses : x.kind = "transport" \/ x.data \in WellFormed} :
            Respond(id, r) /\ UNCHANGED dashboardVars

EvictionNext == EvictionGetWeatherStep \/ EvictionRespondStep \/ TickStep

SpecEviction == EvictionInit /\ [][EvictionNext]_vars

(***************************************************************************)
(* The test-support operations, lines 150-166, beside the service: the     *)
(* reset of the three structures and the two queries on the shared map.    *)
(* A query leaves the state alone; the step reports the value it returns.  *)
(***************************************************************************)
Value(v) == [kind |-> "value", summary |-> Some(v)]

\* Lines 151-155.
resetForTests ==
    /\ perUserCache' = EmptyMap
    /\ sharedCache' = EmptyMap
    /\ sharedLRU' = << >>
    /\ ev' = Event("__resetForTests", NoCall, "none", Nothing)
    /\ UNCHANGED <<apiKey, now, inflight, netCalls, writes>>

\* Lines 158-160.
sharedCacheSize ==
    /\ ev' = Event("__sharedCacheSize", NoCall, "none",
                   Value(Cardinality(DOMAIN sharedCache)))
    /\ UNCHANGED <<apiKey, perUserCache, sharedCache, sharedLRU, now, inflight,
                   netCalls, writes>>

\* hasSharedFor that answers as a lookup would: only for a usable entry.
hasSharedFor_Usable(lat, long) ==
    LET key == computeBucketKey(lat, long) IN
    /\ ev' = Event("__hasSharedFor",
                   [NoCall EXCEPT !.lat = lat, !.long = long, !.bucketKey = key],
                   "none", Value(Usable(MapGet(sharedCache, key), lat, long, now)))
    /\ UNCHANGED <<apiKey, perUserCache, sharedCache, sharedLRU, now, inflight,
                   netCalls, writes>>

\* Lines 163-166.
hasSharedFor(lat, long) ==
    LET key == computeBucketKey(lat, long) IN
    /\ ev' = Event("__hasSharedFor",
                   [NoCall EXCEPT !.lat = lat, !.long = long, !.bucketKey = key],
                   "none", Value(key \in DOMAIN sharedCache))
    /\ UNCHANGED <<apiKey, perUserCache, sharedCache, sharedLRU, now, inflight,
                   netCalls, writes>>

TestSupportInit == Init

TestSupportGetWeatherStep ==
    \E s \in Sessions, p \in TestSupportPoints :
        /\ getWeather(s, p.lat, p.long)
        /\ netCalls' <= MaxTestSupportCalls
        /\ UNCHANGED dashboardVars

TestSupportRespondStep ==
    \E id \in DOMAIN inflight :
        \E r \in {x \in Responses : x.kind = "transport" \/ x.data \in WellFormed} :
            Respond(id, r) /\ UNCHANGED dashboardVars

ResetStep == resetForTests /\ UNCHANGED dashboardVars
SizeStep == sharedCacheSize /\ UNCHANGED dashboardVars
HasSharedForStep ==
    \E p \in TestSupportPoints : hasSharedFor(p.lat, p.long) /\ UNCHANGED dashboardVars

TestSupportNext ==
    \/ TestSupportGetWeatherStep
    \/ TestSupportRespondStep
    \/ TickStep
    \/ ResetStep
    \/ SizeStep
    \/ HasSharedForStep

SpecTestSupport == TestSupportInit /\ [][TestSupportNext]_vars

(***************************************************************************)
(* The dashboard server (src/src/index.ts) in front of the service: a      *)
(* location update stores the coordinate and asks for the weather; a       *)
(* change of the metricSystemEnabled setting asks again, for the stored    *)
(* coordinate; whenever getWeather hands back a summary the display string *)
(* of the session is rebuilt from it.  One session per user.               *)
(***************************************************************************)
DashboardPoints == {P0, N33}

DashboardResponses ==
    {r \in Responses : r.kind \in {"ok", "transport"} /\ (r.kind = "ok" => r.data \in WellFormed)}

\* Lines 1074-1085: weatherCache = {timestamp, data: `${condition}, ${temp}${unit}`}.
\* The display string is kept as its three parts.
WeatherCacheOf(weatherData, useMetric, t) ==
    [timestamp |-> t,
     condition |-> weatherData.condition,
     temp |-> IF useMetric THEN weatherData.tempC ELSE weatherData.tempF,
     unit |-> IF useMetric THEN "C" ELSE "F"]

\* Lines 1072-1094, from the return of getWeather on: a summary is rendered
\* into the session's weatherCache; null and an exception leave it as it is.
AfterGetWeather(sessions, userId, useMetric, result, t) ==
    IF result.kind = "summary"
    THEN [sessions EXCEPT ![userId].weatherCache =
                              Some(WeatherCacheOf(result.summary[1], useMetric, t))]
    ELSE sessions

\* fetchWeatherData in which forceUpdate skips the caches of the service.
fetchWeatherData_Forced(session, sessions, useMetric, lat, lng, forceUpdate) ==
    /\ fetchLog' = [userId |-> session.userId, lat |-> lat, lng |-> lng,
                    forceUpdate |-> forceUpdate]
    /\ IF forceUpdate /\ apiKey # Missing
       THEN LET c == [id |-> netCalls + 1, userId |-> session.userId, lat |-> lat,
                      long |-> lng, logger |-> session.logger, currentTime |-> now,
                      bucketKey |-> computeBucketKey(lat, lng)]
            IN  /\ netCalls' = netCalls + 1
                /\ inflight' = MapSet(inflight, netCalls + 1, c)
                /\ ev' = Event("getWeather", c, "request", Pending)
                /\ UNCHANGED <<apiKey, perUserCache, sharedCache, sharedLRU, now, writes>>
       ELSE getWeather(session, lat, lng)
    /\ activeSessions' = AfterGetWeather(sessions, session.userId, useMetric, ev'.result, now)

\* Lines 1056-1095, up to the point where getWeather returns or suspends.
\* sessions and useMetric are the session table and the setting as the
\* calling handler left them.  forceUpdate is logged and not used.
fetchWeatherData(session, sessions, useMetric, lat, lng, forceUpdate) ==
    /\ fetchLog' = [userId |-> session.userId, lat |-> lat, lng |-> lng,
                    forceUpdate |-> forceUpdate]
    /\ getWeather(session, lat, lng)
    /\ activeSessions' = AfterGetWeather(sessions, session.userId, useMetric, ev'.result, now)

\* Lines 1100-1151.
handleLocationUpdate(session, data) ==
    /\ fetchWeatherData(session,
                        [activeSessions EXCEPT ![session.userId].latestLocation = Some(data)],
                        metricSystemEnabled[session.userId],
                        data.lat, data.long, FALSE)
    /\ UNCHANGED metricSystemEnabled

\* Lines 267-288: the handler of a change of metricSystemEnabled.  The
\* setting has its new value when the handler runs.
onMetricSystemEnabledChange(session, newValue) ==
    LET sessionInfo == activeSessions[session.userId] IN
    /\ newValue # metricSystemEnabled[session.userId]
    /\ metricSystemEnabled' = [metricSystemEnabled EXCEPT ![session.userId] = newValue]
    /\ IF sessionInfo.latestLocation # Missing
       THEN fetchWeatherData(session, activeSessions, newValue,
                             sessionInfo.latestLocation[1].lat,
                             sessionInfo.latestLocation[1].long, TRUE)
       ELSE /\ ev' = Event("settings", [NoCall EXCEPT !.userId = session.userId],
                           "none", Nothing)
            /\ UNCHANGED <<apiKey, perUserCache, sharedCache, sharedLRU, now,
                           inflight, netCalls, writes, activeSessions, fetchLog>>

\* Lines 1072-1094 for an invocation that was suspended: the request settles,
\* getWeather resumes and returns to fetchWeatherData.
fetchWeatherDataResumes(id, r) ==
    /\ Respond(id, r)
    /\ activeSessions' =
          AfterGetWeather(activeSessions, ev'.call.userId,
                          metricSystemEnabled[ev'.call.userId], ev'.result, now)
    /\ UNCHANGED <<metricSystemEnabled, fetchLog>>

DashboardInit == Init /\ apiKey # Missing

LocationUpdateStep ==
    \E s \in Sessions, p \in DashboardPoints :
        handleLocationUpdate(s, p) /\ netCalls' <= MaxDashboardCalls

MetricChangeStep ==
    \E s \in Sessions, v \in BOOLEAN :
        onMetricSystemEnabledChange(s, v) /\ netCalls' <= MaxDashboardCalls

DashboardRespondStep ==
    \E id \in DOMAIN inflight, r \in DashboardResponses : fetchWeatherDataResumes(id, r)

DashboardNext ==
    LocationUpdateStep \/ MetricChangeStep \/ DashboardRespondStep \/ TickStep

SpecDashboard == DashboardInit /\ [][DashboardNext]_vars

(***************************************************************************)
(* Vocabulary of the properties.  A step is read off ev', which names the  *)
(* operation just performed, its invocation and what the caller got.       *)
(***************************************************************************)
\* Distance in metres between a stored entry and a query point.
Metres(e, p) == haversineKm(e.lat, e.long, p.lat, p.long)
RadiusMetres == 5 * 1000
TenMinutes == 10 * 60 * 1000

\* The entries a getWeather call of user u can find: u's own and the shared ones.
Held(u) == IF u \in DOMAIN perUserCache THEN {perUserCache[u]} ELSE {}
Shared == {sharedCache[k] : k \in DOMAIN sharedCache}

\* The step is the synchronous part of a getWeather call, ev'.call.
CallStep == ev'.op = "getWeather"
\* The step resumes invocation ev'.call with response r.
ResponseStep(r) == ev'.op = "response" /\ Respond(ev'.call.id, r)

CacheTiers == {"user", "shared", "neighbor"}

(***************************************************************************)
(* C1.  If, when getWeather starts, the caller's per-user slot holds an    *)
(* entry E with E.expiresAt > now that lies within 5 km (inclusive) of the *)
(* query, the call returns E.weatherSummary and issues no network request, *)
(* whatever the shared cache holds.                                        *)
(***************************************************************************)
C1_PerUserHit ==
    [][CallStep =>
         \A e \in Held(ev'.call.userId) :
            (e.expiresAt > now /\ Metres(e, ev'.call) <= RadiusMetres)
            => /\ ev'.result = Returns(e.weatherSummary)
               /\ netCalls' = netCalls
               /\ inflight' = inflight]_vars

\* A per-user hit at a coordinate other than the stored one, while the shared
\* cache holds a different valid entry that is in range of the query too.
C1_Witness ==
    /\ ev.op = "getWeather"
    /\ ev.tier = "user"
    /\ LET e == perUserCache[ev.call.userId] IN
       /\ <<e.lat, e.long>> # <<ev.call.lat, ev.call.long>>
       /\ ev.result = Returns(e.weatherSummary)
       /\ \E x \in Shared :
             /\ x # e
             /\ x.weatherSummary # e.weatherSummary
             /\ x.expiresAt > now
             /\ Metres(x, ev.call) <= RadiusMetres

(***************************************************************************)
(* C3.  An entry is usable only while expiresAt > now.  (a) A call that    *)
(* starts at t >= fetchedAt + 10 minutes is never answered from that       *)
(* entry: every entry served from a cache tier was fetched less than 10    *)
(* minutes before the call.  (b) When no entry in range of the query is    *)
(* that fresh (and a credential is configured) the call issues a request,  *)
(* and a successful response is returned as the new result.  (c) A call by *)
(* the user holding an entry, at the entry's coordinate and at             *)
(* t < fetchedAt + 10 minutes, issues none.                                *)
(***************************************************************************)
C3_Expiry ==
    /\ [][CallStep =>
            LET u == ev'.call.userId
                Fresh(e) == now < e.fetchedAt + TenMinutes
                InRange(e) == Metres(e, ev'.call) <= RadiusMetres
            IN  /\ ev'.tier \in CacheTiers =>
                      /\ Fresh(perUserCache'[u])
                      /\ ev'.result = Returns(perUserCache'[u].weatherSummary)
                /\ (/\ apiKey # Missing
                    /\ \A e \in Held(u) \cup Shared : InRange(e) => ~Fresh(e))
                   => /\ netCalls' = netCalls + 1
                      /\ ev'.result = Pending
                /\ \A e \in Held(u) :
                      (Fresh(e) /\ <<e.lat, e.long>> = <<ev'.call.lat, ev'.call.long>>)
                      => netCalls' = netCalls]_vars
    /\ [][\A r \in Responses :
            (ResponseStep(r) /\ r.kind = "ok")
            => /\ ev'.result = Returns(MakeSummary(r.data))
               /\ perUserCache'[ev'.call.userId].fetchedAt = ev'.call.currentTime
               /\ netCalls' = netCalls]_vars

\* A call at exactly fetchedAt + 10 minutes, by the user holding the entry and
\* at the entry's coordinate, has gone to the network.
C3_Witness ==
    /\ ev.op = "getWeather"
    /\ ev.tier = "request"
    /\ ev.call.userId \in DOMAIN perUserCache
    /\ LET e == perUserCache[ev.call.userId] IN
       /\ <<e.lat, e.long>> = <<ev.call.lat, ev.call.long>>
       /\ ev.call.currentTime = e.fetchedAt + TenMinutes
       /\ e.bucketKey \in DOMAIN sharedCache
       /\ sharedCache[e.bucketKey] = e

(***************************************************************************)
(* C4.  A valid per-user entry more than 5 km from the query is not served *)
(* from the per-user slot; the call goes on to the shared cache, and when  *)
(* no shared entry is valid and within 5 km of the query it issues exactly *)
(* one request (a credential being configured) whose successful response   *)
(* is what the call returns.  Shared entries pass the same distance test:  *)
(* whatever a cache tier serves lies within 5 km of the query, and a user  *)
(* more than 5 km from every cached entry triggers a fetch.                *)
(***************************************************************************)
C4_OutOfRange ==
    /\ [][CallStep =>
            LET u == ev'.call.userId
                Valid(e) == e.expiresAt > now
                InRange(e) == Metres(e, ev'.call) <= RadiusMetres
            IN  /\ (\E e \in Held(u) : Valid(e) /\ ~InRange(e)) => ev'.tier # "user"
                /\ ev'.tier \in CacheTiers => InRange(perUserCache'[u])
                /\ (/\ apiKey # Missing
                    /\ \A e \in Held(u) \cup Shared : ~(Valid(e) /\ InRange(e)))
                   => /\ netCalls' = netCalls + 1
                      /\ DOMAIN inflight' = DOMAIN inflight \cup {netCalls + 1}
                      /\ ev'.result = Pending]_vars
    /\ [][\A r \in Responses :
            ResponseStep(r)
            => /\ netCalls' = netCalls
               /\ DOMAIN inflight' = DOMAIN inflight \ {ev'.call.id}
               /\ r.kind = "ok" => ev'.result = Returns(MakeSummary(r.data))]_vars

\* A request issued for a user whose own entry is valid but out of range,
\* with a valid shared entry in a neighbouring cell that is out of range too.
C4_Witness ==
    /\ ev.op = "getWeather"
    /\ ev.tier = "request"
    /\ ev.call.userId \in DOMAIN perUserCache
    /\ LET e == perUserCache[ev.call.userId] IN
       /\ e.expiresAt > now
       /\ Metres(e, ev.call) > RadiusMetres
    /\ \E i \in 1..8 :
          LET k == neighbors(ev.call.bucketKey)[i] IN
          /\ k \in DOMAIN sharedCache
          /\ sharedCache[k].expiresAt > now
          /\ Metres(sharedCache[k], ev.call) > RadiusMetres

(***************************************************************************)
(* C2.  After a successful fetch by user A at P, every getWeather call by  *)
(* another user at a coordinate Q within 5 km of P, started while A's      *)
(* entry is valid and in the shared cache, is a cache hit: it returns A's  *)
(* summary, issues no request and leaves the caller's slot holding A's     *)
(* entry -- for every such Q, whatever its bucket.                         *)
(***************************************************************************)
C2_SharedHitWithinRadius ==
    [][CallStep =>
         LET u == ev'.call.userId IN
         \A e \in Shared \ Held(u) :
            (e.expiresAt > now /\ Metres(e, ev'.call) <= RadiusMetres)
            => /\ netCalls' = netCalls
               /\ ev'.result = Returns(e.weatherSummary)
               /\ perUserCache'[u] = e]_vars

\* The position in the write history of the last write of key k.
LastWrite(k) == CHOOSE i \in 1..Len(writes) : writes[i] = k /\ \A j \in (i + 1)..Len(writes) : writes[j] # k

(***************************************************************************)
(* C5.  The shared cache never holds more than MAX_SHARED_CACHE_ENTRIES    *)
(* entries.  A write that takes it past capacity removes the key whose     *)
(* last write is the oldest of the keys present, and never the key just    *)
(* written; no other step removes a shared entry.                          *)
(***************************************************************************)
C5_Capacity ==
    /\ [](Cardinality(DOMAIN sharedCache) <= MAX_SHARED_CACHE_ENTRIES)
    /\ [][LET removed == DOMAIN sharedCache \ DOMAIN sharedCache'
              written == ev'.call.bucketKey
          IN  /\ removed # {} => ev'.op = "response" /\ ev'.tier = "network"
              /\ (ev'.op = "response" /\ ev'.tier = "network") =>
                    /\ written \in DOMAIN sharedCache'
                    /\ written \notin removed
                    /\ removed # {} <=>
                          /\ written \notin DOMAIN sharedCache
                          /\ Cardinality(DOMAIN sharedCache) = MAX_SHARED_CACHE_ENTRIES
                    /\ \A k \in removed :
                          /\ removed = {k}
                          /\ \A j \in DOMAIN sharedCache : LastWrite(k) <= LastWrite(j)]_vars

\* A write has evicted a key that entered the cache after a key that is still
\* present: the survivor was rewritten in between.
C5_Witness ==
    /\ ev.op = "response"
    /\ ev.tier = "network"
    /\ Cardinality(DOMAIN sharedCache) = MAX_SHARED_CACHE_ENTRIES
    /\ \E i \in 1..Len(writes), j \in 1..Len(writes) :
          /\ i < j
          /\ writes[j] \notin DOMAIN sharedCache
          /\ writes[i] \in DOMAIN sharedCache
          /\ \A h \in 1..(j - 1) : writes[h] # writes[j]
          /\ \A h \in 1..(i - 1) : writes[h] # writes[i]

(***************************************************************************)
(* C6.  When the upstream request fails (transport error or non-success    *)
(* status), getWeather returns absent, the per-user cache, the shared      *)
(* cache and the write-order sequence are as they were, and no second      *)
(* request is issued for the call.                                         *)
(***************************************************************************)
C6_FailureReturnsAbsent ==
    [][\A r \in Responses :
          (ResponseStep(r) /\ r.kind \in {"transport", "status"})
          => /\ ev'.result = Null
             /\ perUserCache' = perUserCache
             /\ sharedCache' = sharedCache
             /\ sharedLRU' = sharedLRU
             /\ netCalls' = netCalls
             /\ ev'.call.id \notin DOMAIN inflight']_vars

(***************************************************************************)
(* C7.  A response with a success status whose payload lacks the condition *)
(* label or the numeric temperature is treated as a fetch failure:         *)
(* getWeather returns absent and writes no entry to either cache.          *)
(***************************************************************************)
C7_MalformedIsFailure ==
    [][\A r \in Responses :
          (/\ ResponseStep(r)
           /\ r.kind = "ok"
           /\ (r.data.main = Missing \/ r.data.temp = Missing))
          => /\ ev'.result = Null
             /\ perUserCache' = perUserCache
             /\ sharedCache' = sharedCache
             /\ sharedLRU' = sharedLRU]_vars

(***************************************************************************)
(* C8.  getWeather never throws to its caller: whatever logger the session *)
(* carries, a failure on the fetch path ends in the return value absent.   *)
(***************************************************************************)
C8_NeverThrows ==
    /\ ev.result.kind # "throw"
    /\ (ev.op = "response" /\ ev.tier = "failed") => ev.result = Null

(***************************************************************************)
(* C9.  With no API credential configured, a getWeather call on a full     *)
(* miss returns absent, issues no request and creates no entry; so, from   *)
(* empty caches, both caches stay empty and every call returns absent.     *)
(***************************************************************************)
C9_NoCredential ==
    apiKey = Missing =>
        /\ perUserCache = EmptyMap
        /\ sharedCache = EmptyMap
        /\ sharedLRU = << >>
        /\ inflight = EmptyMap
        /\ netCalls = 0
        /\ ev.op = "getWeather" => ev.result = Null

\* Without a credential, a call made after the clock has moved returned absent.
C9_Witness ==
    /\ apiKey = Missing
    /\ ev.op = "getWeather"
    /\ ev.tier = "nokey"
    /\ ev.result = Null
    /\ now > 0

(***************************************************************************)
(* C10.  A successful fetch for (U, lat, lon) stores one and the same new  *)
(* entry in the shared slot of bucketKey(lat, lon) and in U's per-user     *)
(* slot: it carries the caller's coordinate, that bucket key, the call's   *)
(* start time and the summary getWeather returns.  After a fetch from an   *)
(* empty shared cache the cache has size 1 and holds that bucket.          *)
(***************************************************************************)
C10_FetchStoresEntry ==
    [][(ev'.op = "response" /\ ev'.tier = "network") =>
         LET c == ev'.call
             k == GeohashEncode(c.lat, c.long)
         IN  /\ k \in DOMAIN sharedCache'
             /\ c.userId \in DOMAIN perUserCache'
             /\ sharedCache'[k] = perUserCache'[c.userId]
             /\ LET e == sharedCache'[k] IN
                /\ <<e.lat, e.long>> = <<c.lat, c.long>>
                /\ e.bucketKey = k
                /\ e.fetchedAt = c.currentTime
                /\ ev'.result = Returns(e.weatherSummary)
             /\ sharedCache = EmptyMap =>
                   /\ Cardinality(DOMAIN sharedCache') = 1
                   /\ sharedLRU' = <<k>>]_vars

\* The first fetch has completed: one request, one shared entry, the same
\* entry in the fetching user's slot.
C10_Witness ==
    /\ ev.op = "response"
    /\ ev.tier = "network"
    /\ netCalls = 1
    /\ Cardinality(DOMAIN sharedCache) = 1
    /\ ev.call.bucketKey \in DOMAIN sharedCache
    /\ ev.call.userId \in DOMAIN perUserCache
    /\ sharedCache[ev.call.bucketKey] = perUserCache[ev.call.userId]
    /\ ev.result = Returns(perUserCache[ev.call.userId].weatherSummary)

\* The outstanding requests of the user and bucket of invocation c.
Twins(reqs, c) ==
    {id \in DOMAIN reqs : /\ reqs[id].userId = c.userId
                          /\ reqs[id].bucketKey = c.bucketKey}

(***************************************************************************)
(* C11.  No request coalescing.  A getWeather call that finds no valid     *)
(* entry in range in any tier, while a request of the same user for the    *)
(* same bucket is still outstanding, issues a request of its own: both are *)
(* then in flight.  Each request's successful response is returned to its  *)
(* own call and leaves the other requests outstanding.                     *)
(***************************************************************************)
C11_NoCoalescing ==
    /\ [][CallStep =>
            LET c == ev'.call IN
            (/\ apiKey # Missing
             /\ Twins(inflight, c) # {}
             /\ \A e \in Held(c.userId) \cup Shared :
                   ~(e.expiresAt > now /\ Metres(e, c) <= RadiusMetres))
            => /\ netCalls' = netCalls + 1
               /\ c.id \notin DOMAIN inflight
               /\ DOMAIN inflight' = DOMAIN inflight \cup {c.id}
               /\ \A id \in DOMAIN inflight : inflight'[id] = inflight[id]
               /\ Cardinality(Twins(inflight', c)) >= 2
               /\ ev'.result = Pending]_vars
    /\ [][\A r \in Responses :
            (ResponseStep(r) /\ r.kind = "ok")
            => /\ ev'.result = Returns(MakeSummary(r.data))
               /\ \A id \in DOMAIN inflight \ {ev'.call.id} :
                     id \in DOMAIN inflight' /\ inflight'[id] = inflight[id]]_vars

\* Two requests of one user for one bucket are outstanding, the second just
\* issued from the same coordinate as the first.
C11_Witness ==
    /\ ev.op = "getWeather"
    /\ ev.tier = "request"
    /\ \E id \in DOMAIN inflight :
          /\ id # ev.call.id
          /\ inflight[id].userId = ev.call.userId
          /\ inflight[id].bucketKey = ev.call.bucketKey
          /\ <<inflight[id].lat, inflight[id].long>> = <<ev.call.lat, ev.call.long>>

\* Every entry held by either cache.
Stored == Shared \cup {perUserCache[u] : u \in DOMAIN perUserCache}

(***************************************************************************)
(* C12.  Every entry stored in the per-user cache or the shared cache, in  *)
(* every reachable state, has expiresAt = fetchedAt + 10 minutes.  A       *)
(* getWeather call that changes the caller's slot without a fetch          *)
(* (hydration) puts there an entry of the shared cache as it is, fetchedAt *)
(* and expiresAt included, and leaves the shared cache alone.              *)
(***************************************************************************)
C12_ExpiresAtIsFetchedAtPlusTtl ==
    /\ [](\A e \in Stored : e.expiresAt = e.fetchedAt + TenMinutes)
    /\ [][(CallStep /\ perUserCache' # perUserCache) =>
            LET u == ev'.call.userId IN
            /\ \E k \in DOMAIN sharedCache :
                  /\ perUserCache'[u] = sharedCache[k]
                  /\ perUserCache'[u].fetchedAt = sharedCache[k].fetchedAt
                  /\ perUserCache'[u].expiresAt = sharedCache[k].expiresAt
            /\ sharedCache' = sharedCache]_vars

\* A slot hydrated from another user's entry some time after that entry was
\* fetched, the fetch having started at a time other than 0.
C12_Witness ==
    /\ ev.op = "getWeather"
    /\ ev.tier \in {"shared", "neighbor"}
    /\ LET e == perUserCache[ev.call.userId] IN
       /\ e.fetchedAt > 0
       /\ now > e.fetchedAt
       /\ e.expiresAt = e.fetchedAt + TenMinutes
       /\ \E u \in DOMAIN perUserCache : u # ev.call.userId /\ perUserCache[u] = e

(***************************************************************************)
(* C13.  clearUser(U) leaves the per-user cache with no entry for U and    *)
(* leaves every other user's slot, the shared cache and the write-order    *)
(* sequence as they were; when U has no entry nothing changes.  A          *)
(* getWeather by U right after clearUser(U) is still served, without a     *)
(* network request, from a valid shared entry of the query's bucket that   *)
(* is in range.                                                            *)
(***************************************************************************)
C13_ClearUserFrame ==
    /\ [][ev'.op = "clearUser" =>
            LET u == ev'.call.userId IN
            /\ u \notin DOMAIN perUserCache'
            /\ DOMAIN perUserCache' = DOMAIN perUserCache \ {u}
            /\ \A v \in DOMAIN perUserCache \ {u} : perUserCache'[v] = perUserCache[v]
            /\ u \notin DOMAIN perUserCache => perUserCache' = perUserCache
            /\ sharedCache' = sharedCache
            /\ sharedLRU' = sharedLRU
            /\ inflight' = inflight
            /\ netCalls' = netCalls]_vars
    /\ [][(CallStep /\ ev.op = "clearUser" /\ ev.call.userId = ev'.call.userId) =>
            LET c == ev'.call
                k == GeohashEncode(c.lat, c.long)
            IN  (/\ k \in DOMAIN sharedCache
                 /\ sharedCache[k].expiresAt > now
                 /\ Metres(sharedCache[k], c) <= RadiusMetres)
                => /\ ev'.result = Returns(sharedCache[k].weatherSummary)
                   /\ netCalls' = netCalls
                   /\ inflight' = inflight
                   /\ perUserCache'[c.userId] = sharedCache[k]]_vars

\* clearUser has removed the entry of a user while another user holds a slot
\* and the shared cache holds a valid entry.
C13_Witness ==
    /\ ev.op = "clearUser"
    /\ ev.tier = "removed"
    /\ ev.call.userId \notin DOMAIN perUserCache
    /\ \E v \in DOMAIN perUserCache : v # ev.call.userId
    /\ \E e \in Shared : e.expiresAt > now
    /\ sharedLRU # << >>

(***************************************************************************)
(* C14.  When a getWeather call returns a summary (per-user hit, shared    *)
(* own-cell hit, shared neighbour hit or network success), the caller's    *)
(* per-user slot holds, at that moment, the one entry whose summary is     *)
(* returned: an entry that was already stored, whole, or the entry just    *)
(* built from the response; never a mixture.                               *)
(***************************************************************************)
C14_SlotHoldsReturnedEntry ==
    [][ev'.result.kind = "summary" =>
         LET c == ev'.call
             u == c.userId
         IN  /\ ev'.op \in {"getWeather", "response"}
             /\ u \in DOMAIN perUserCache'
             /\ ev'.result = Returns(perUserCache'[u].weatherSummary)
             /\ ev'.tier = "user" => perUserCache'[u] = perUserCache[u]
             /\ ev'.tier \in {"shared", "neighbor"} =>
                   /\ perUserCache'[u] \in Shared
                   /\ Metres(perUserCache'[u], c) <= RadiusMetres
             /\ ev'.tier = "network" =>
                   /\ <<perUserCache'[u].lat, perUserCache'[u].long>> = <<c.lat, c.long>>
                   /\ perUserCache'[u].fetchedAt = c.currentTime
                   /\ perUserCache'[u] = sharedCache'[c.bucketKey]
             /\ \A v \in DOMAIN perUserCache' \ {u} :
                   v \in DOMAIN perUserCache /\ perUserCache'[v] = perUserCache[v]]_vars

\* A hit on the shared tier has put the served entry into the caller's slot
\* while the shared cache holds another valid entry, out of range of the
\* query and with a different summary.
C14_Witness ==
    /\ ev.op = "getWeather"
    /\ ev.tier \in {"shared", "neighbor"}
    /\ ev.result = Returns(perUserCache[ev.call.userId].weatherSummary)
    /\ \E e \in Shared :
          /\ e.weatherSummary # perUserCache[ev.call.userId].weatherSummary
          /\ e.expiresAt > now
          /\ Metres(e, ev.call) > RadiusMetres

(***************************************************************************)
(* C15.  For an upstream Celsius reading r (a number of tenths, negative   *)
(* values and exact halves included) the stored summary has tempC =        *)
(* round(r) and tempF = round(tempC * 9 / 5 + 32), from the rounded tempC  *)
(* and not from r, where round(x) is the integer n with                    *)
(* n - 1/2 <= x < n + 1/2 (halves go toward positive infinity).            *)
(***************************************************************************)
C15_Rounding ==
    [][\A r \in RoundingResponses :
          ResponseStep(r) =>
             LET t == r.data.temp[1]
                 c == ev'.call
                 w == perUserCache'[c.userId].weatherSummary
             IN  /\ 10 * w.tempC - 5 <= t
                 /\ t < 10 * w.tempC + 5
                 /\ 10 * w.tempF - 5 <= 18 * w.tempC + 320
                 /\ 18 * w.tempC + 320 < 10 * w.tempF + 5
                 /\ ev'.result = Returns(w)
                 /\ sharedCache'[c.bucketKey].weatherSummary = w]_vars

\* The summary stored for a reading in [-1.5, -0.5): tempC = -1, and
\* tempF = 30 from 30.2, where -1.5 itself would give 29 (from 29.3).
C15_Witness ==
    /\ ev.op = "response"
    /\ ev.tier = "network"
    /\ perUserCache[ev.call.userId].weatherSummary =
          [condition |-> "Clear", tempC |-> -1, tempF |-> 30]
    /\ ev.result = Returns(perUserCache[ev.call.userId].weatherSummary)

(***************************************************************************)
(* C16.  A getWeather call (either half of it) or a clearUser for user A   *)
(* never creates, changes or removes the per-user slot of another user B,  *)
(* in any interleaving; what A's step can change besides A's own slot is   *)
(* the shared cache and its write order, and only a fetch does.            *)
(***************************************************************************)
C16_PerUserPartition ==
    [][LET a == ev'.call.userId IN
       /\ \A b \in Users \ {a} :
             /\ b \in DOMAIN perUserCache' <=> b \in DOMAIN perUserCache
             /\ b \in DOMAIN perUserCache => perUserCache'[b] = perUserCache[b]
       /\ ev'.op \notin {"getWeather", "response", "clearUser"} =>
             perUserCache' = perUserCache
       /\ (sharedCache' # sharedCache \/ sharedLRU' # sharedLRU) =>
             ev'.op = "response" /\ ev'.tier = "network"]_vars

\* A's fetch has overwritten the shared entry of a bucket while B's slot
\* still holds the entry, of the same bucket, that it held before.
C16_Witness ==
    /\ ev.op = "response"
    /\ ev.tier = "network"
    /\ LET a == ev.call.userId IN
       /\ a \in DOMAIN perUserCache
       /\ sharedCache[ev.call.bucketKey] = perUserCache[a]
       /\ \E b \in DOMAIN perUserCache \ {a} :
             /\ perUserCache[b].bucketKey = ev.call.bucketKey
             /\ perUserCache[b].weatherSummary # perUserCache[a].weatherSummary

C18_HitsLeaveSharedTier ==
    /\ [][(CallStep /\ ev'.result.kind = "summary")
            => /\ sharedCache' = sharedCache
               /\ sharedLRU' = sharedLRU
               /\ netCalls' = netCalls]_vars
    /\ [](\A i \in 1..Len(sharedLRU), j \in 1..Len(sharedLRU) :
             i < j => LastWrite(sharedLRU[i]) < LastWrite(sharedLRU[j]))
    /\ [][(DOMAIN sharedCache \ DOMAIN sharedCache') # {}
            => /\ ev'.op = "response"
               /\ DOMAIN sharedCache \ DOMAIN sharedCache' = {Head(sharedLRU)}]_vars

\* A hit on the shared tier has just read the bucket that is first in the
\* write order of a full cache: it is still the next one to be evicted.
C18_Witness ==
    /\ ev.op = "getWeather"
    /\ ev.tier \in {"shared", "neighbor"}
    /\ Len(sharedLRU) = MAX_SHARED_CACHE_ENTRIES
    /\ perUserCache[ev.call.userId].bucketKey = Head(sharedLRU)
    /\ sharedCache[Head(sharedLRU)] = perUserCache[ev.call.userId]

(***************************************************************************)
(* C19.  A write for a bucket key already in the shared cache replaces the *)
(* slot, takes the key out of its earlier position in the write-order      *)
(* sequence and appends it at the end: the other keys keep their order and *)
(* their entries, the size is unchanged, nothing is evicted, and the key   *)
(* is the last candidate for eviction.                                     *)
(***************************************************************************)
C19_OverwriteMovesKeyToEnd ==
    [][(ev'.op = "response" /\ ev'.tier = "network"
            /\ ev'.call.bucketKey \in DOMAIN sharedCache) =>
         LET k == ev'.call.bucketKey IN
         /\ sharedCache'[k] = perUserCache'[ev'.call.userId]
         /\ sharedCache'[k].fetchedAt = ev'.call.currentTime
         /\ ev'.result = Returns(sharedCache'[k].weatherSummary)
         /\ DOMAIN sharedCache' = DOMAIN sharedCache
         /\ \A j \in DOMAIN sharedCache \ {k} : sharedCache'[j] = sharedCache[j]
         /\ sharedLRU' = Append(SelectSeq(sharedLRU, LAMBDA x : x # k), k)
         /\ Len(sharedLRU') = Len(sharedLRU)
         /\ sharedLRU'[Len(sharedLRU')] = k]_vars

\* A key written, then the other key of a full cache written, then the
\* first key written again: it has moved from the front of the write order
\* to its end, and both keys are still there.
C19_Witness ==
    /\ ev.op = "response"
    /\ ev.tier = "network"
    /\ Len(sharedLRU) = MAX_SHARED_CACHE_ENTRIES
    /\ sharedLRU[Len(sharedLRU)] = ev.call.bucketKey
    /\ \E i \in 1..Len(writes) :
          /\ i + 1 < Len(writes)
          /\ writes[i] = ev.call.bucketKey
          /\ writes[Len(writes)] = ev.call.bucketKey
          /\ \A j \in (i + 1)..(Len(writes) - 1) : writes[j] = Head(sharedLRU)
          /\ Head(sharedLRU) # ev.call.bucketKey

\* The step completes a successful fetch: a success status and a payload
\* with its condition label and its temperature.
SuccessfulFetch ==
    \E r \in Responses :
        /\ r.kind = "ok"
        /\ r.data.main # Missing
        /\ r.data.temp # Missing
        /\ ResponseStep(r)

(***************************************************************************)
(* C20.  Every entry present in the per-user cache or the shared cache, in *)
(* every reachable state, is identical to an entry built by a successful   *)
(* network fetch: a step that completes a successful fetch adds at most    *)
(* the entry built from that call and its response, and every other step   *)
(* (cache hit, failed fetch, call without credential, clearUser) adds no   *)
(* entry and changes no field of one.                                      *)
(***************************************************************************)
C20_EntriesOnlyFromSuccessfulFetch ==
    [][LET c == ev'.call
           built == [bucketKey |-> GeohashEncode(c.lat, c.long),
                     lat |-> c.lat,
                     long |-> c.long,
                     weatherSummary |-> ev'.result.summary[1],
                     fetchedAt |-> c.currentTime,
                     expiresAt |-> c.currentTime + TenMinutes]
           after == {sharedCache'[k] : k \in DOMAIN sharedCache'}
                       \cup {perUserCache'[u] : u \in DOMAIN perUserCache'}
       IN  IF SuccessfulFetch
           THEN after \subseteq Stored \cup {built}
           ELSE after \subseteq Stored]_vars

(***************************************************************************)
(* C21.  On a hit in the shared cache (own cell or neighbour cell) the     *)
(* caller's per-user slot afterwards holds the shared entry as it is: its  *)
(* original coordinate, bucket key, fetchedAt and expiresAt, not the       *)
(* caller's coordinate or the time of the call.  The caller's later        *)
(* queries are therefore answered from the slot exactly when the original  *)
(* expiresAt is still ahead and the original coordinate is within 5 km.    *)
(***************************************************************************)
C21_HydrationKeepsOriginalEntry ==
    /\ [][(CallStep /\ ev'.tier \in {"shared", "neighbor"}) =>
            LET c == ev'.call
                h == perUserCache'[c.userId]
            IN  \E k \in DOMAIN sharedCache :
                   /\ k \in {c.bucketKey} \cup {neighbors(c.bucketKey)[i] : i \in 1..8}
                   /\ <<h.lat, h.long>> = <<sharedCache[k].lat, sharedCache[k].long>>
                   /\ h.bucketKey = k
                   /\ h.fetchedAt = sharedCache[k].fetchedAt
                   /\ h.expiresAt = sharedCache[k].expiresAt
                   /\ h.weatherSummary = sharedCache[k].weatherSummary
                   /\ h.fetchedAt <= c.currentTime
                   /\ ev'.result = Returns(h.weatherSummary)]_vars
    /\ [][(CallStep /\ ev'.call.userId \in DOMAIN perUserCache) =>
            LET c == ev'.call
                e == perUserCache[c.userId]
            IN  ev'.tier = "user" <=>
                   (e.expiresAt > now /\ Metres(e, c) <= RadiusMetres)]_vars

\* A neighbour hit some time after the fetch: the caller's slot holds an
\* entry of another bucket, at a coordinate other than the caller's, fetched
\* before the call.
C21_Witness ==
    /\ ev.op = "getWeather"
    /\ ev.tier = "neighbor"
    /\ LET h == perUserCache[ev.call.userId] IN
       /\ <<h.lat, h.long>> # <<ev.call.lat, ev.call.long>>
       /\ h.bucketKey # ev.call.bucketKey
       /\ h.fetchedAt < ev.call.currentTime
       /\ h.expiresAt < ev.call.currentTime + TenMinutes
       /\ sharedCache[h.bucketKey] = h

\* Entry e is valid at time t and within 5 km of the query of invocation c.
Qualifies(e, c, t) == e.expiresAt > t /\ Metres(e, c) <= RadiusMetres

(***************************************************************************)
(* C22.  The lookup order is fixed: the per-user slot, then the shared     *)
(* slot of the query's own bucket, then the 8 neighbour buckets in         *)
(* enumeration order, then the network.  A qualifying (valid, within 5 km) *)
(* own-cell entry is returned even when a neighbour qualifies too; an      *)
(* own-cell entry that does not qualify does not stop the neighbour scan;  *)
(* among the neighbours the first qualifying entry in enumeration order is *)
(* returned and hydrated, whatever the later neighbours hold.              *)
(***************************************************************************)
C22_LookupOrder ==
    [][CallStep =>
         LET c       == ev'.call
             u       == c.userId
             nbs     == neighbors(c.bucketKey)
             slotOK  == u \in DOMAIN perUserCache /\ Qualifies(perUserCache[u], c, now)
             ownOK   == /\ c.bucketKey \in DOMAIN sharedCache
                        /\ Qualifies(sharedCache[c.bucketKey], c, now)
             nbOK(i) == /\ nbs[i] \in DOMAIN sharedCache
                        /\ Qualifies(sharedCache[nbs[i]], c, now)
         IN  /\ slotOK =>
                   /\ ev'.result = Returns(perUserCache[u].weatherSummary)
                   /\ perUserCache' = perUserCache
                   /\ netCalls' = netCalls
             /\ (~slotOK /\ ownOK) =>
                   /\ ev'.result = Returns(sharedCache[c.bucketKey].weatherSummary)
                   /\ perUserCache'[u] = sharedCache[c.bucketKey]
                   /\ netCalls' = netCalls
             /\ (~slotOK /\ ~ownOK) =>
                   \A i \in 1..8 :
                      (nbOK(i) /\ \A j \in 1..(i - 1) : ~nbOK(j)) =>
                         /\ ev'.result = Returns(sharedCache[nbs[i]].weatherSummary)
                         /\ perUserCache'[u] = sharedCache[nbs[i]]
                         /\ netCalls' = netCalls
             /\ (~slotOK /\ ~ownOK /\ \A i \in 1..8 : ~nbOK(i)) =>
                   IF apiKey = Missing
                   THEN ev'.result = Null /\ netCalls' = netCalls
                   ELSE ev'.result = Pending /\ netCalls' = netCalls + 1]_vars

\* A neighbour hit has served the entry of the earlier neighbour while a later
\* neighbour holds a valid entry that is both nearer to the query and newer.
C22_Witness ==
    /\ ev.op = "getWeather"
    /\ ev.tier = "neighbor"
    /\ LET c   == ev.call
           nbs == neighbors(c.bucketKey)
           h   == perUserCache[c.userId]
       IN  \E i \in 1..8, j \in 1..8 :
              /\ i < j
              /\ nbs[i] \in DOMAIN sharedCache
              /\ nbs[j] \in DOMAIN sharedCache
              /\ h = sharedCache[nbs[i]]
              /\ Qualifies(sharedCache[nbs[j]], c, now)
              /\ Metres(sharedCache[nbs[j]], c) < Metres(h, c)
              /\ sharedCache[nbs[j]].fetchedAt > h.fetchedAt

(***************************************************************************)
(* C23.  Eviction from the shared cache depends on write order and         *)
(* capacity only, never on expiresAt: a write evicts exactly when it adds  *)
(* a key to a full cache, and then the first key in write order goes,      *)
(* valid or not.  An expired entry stays in the map, and so counts toward  *)
(* the size, until it is evicted or its bucket is written again; no read   *)
(* ever returns it.                                                        *)
(***************************************************************************)
C23_EvictionIgnoresExpiry ==
    /\ [][LET removed == DOMAIN sharedCache \ DOMAIN sharedCache'
              write   == ev'.op = "response" /\ ev'.tier = "network"
              k       == ev'.call.bucketKey
          IN  /\ removed =
                    IF /\ write
                       /\ k \notin DOMAIN sharedCache
                       /\ Cardinality(DOMAIN sharedCache) = MAX_SHARED_CACHE_ENTRIES
                    THEN {Head(sharedLRU)}
                    ELSE {}
              /\ \A j \in DOMAIN sharedCache \ removed :
                    sharedCache'[j] # sharedCache[j] => (write /\ j = k)]_vars
    /\ [][(CallStep /\ ev'.result.kind = "summary") =>
            /\ perUserCache'[ev'.call.userId].expiresAt > now
            /\ ev'.result = Returns(perUserCache'[ev'.call.userId].weatherSummary)]_vars

\* A write has evicted an entry that is still valid (a per-user slot holds
\* it, and its bucket is gone from the shared cache) while an entry that has
\* expired stays in the full cache.
C23_Witness ==
    /\ ev.op = "response"
    /\ ev.tier = "network"
    /\ Len(writes) = MAX_SHARED_CACHE_ENTRIES + 1
    /\ Cardinality(DOMAIN sharedCache) = MAX_SHARED_CACHE_ENTRIES
    /\ \E u \in DOMAIN perUserCache :
          /\ perUserCache[u].bucketKey \notin DOMAIN sharedCache
          /\ perUserCache[u].expiresAt > now
    /\ \E k \in DOMAIN sharedCache : sharedCache[k].expiresAt <= now

(***************************************************************************)
(* C24.  Each getWeather invocation issues at most one network request,    *)
(* and issues one only when the per-user slot, the shared slot of the      *)
(* query's own cell and all 8 neighbour slots fail the valid-and-within-   *)
(* 5-km test and a credential is configured.  No invocation retries: the   *)
(* step that settles its request, with a result or a failure, issues no    *)
(* request and ends the invocation.                                        *)
(***************************************************************************)
C24_AtMostOneRequest ==
    /\ [][netCalls' # netCalls =>
            LET c    == ev'.call
                u    == c.userId
                cell == {c.bucketKey} \cup {neighbors(c.bucketKey)[i] : i \in 1..8}
            IN  /\ CallStep
                /\ netCalls' = netCalls + 1
                /\ c.id = netCalls + 1
                /\ DOMAIN inflight' = DOMAIN inflight \cup {c.id}
                /\ \A id \in DOMAIN inflight : id < c.id /\ inflight'[id] = inflight[id]
                /\ apiKey # Missing
                /\ u \in DOMAIN perUserCache => ~Qualifies(perUserCache[u], c, now)
                /\ \A k \in cell \cap DOMAIN sharedCache :
                      ~Qualifies(sharedCache[k], c, now)]_vars
    /\ [][ev'.op = "response" =>
            /\ netCalls' = netCalls
            /\ ev'.call.id \in DOMAIN inflight
            /\ DOMAIN inflight' = DOMAIN inflight \ {ev'.call.id}
            /\ ev'.result.kind # "pending"]_vars
    /\ [][(CallStep /\ netCalls' = netCalls) => inflight' = inflight]_vars

\* The only request issued has been rejected: nothing is outstanding, nothing
\* is cached, and the count of requests stands at one.
C24_Witness ==
    /\ ev.op = "response"
    /\ ev.tier = "failed"
    /\ netCalls = 1
    /\ inflight = EmptyMap
    /\ sharedCache = EmptyMap
    /\ perUserCache = EmptyMap

(***************************************************************************)
(* Lines 52-111 as a function of what they read: the two caches, the       *)
(* credential, the caller, the query and the clock.  The tier that answers *)
(* and the value returned; tier "request" is the decision to go to the     *)
(* network.                                                                *)
(***************************************************************************)
getWeatherOutcome(perUser, shared, key, userId, lat, long, currentTime) ==
    LET userEntry   == MapGet(perUser, userId)
        bucketKey   == computeBucketKey(lat, long)
        sharedEntry == MapGet(shared, bucketKey)
        nbs         == neighbors(bucketKey)
        nb          == FirstNeighborHit(shared, nbs, 1, lat, long, currentTime)
    IN
    IF Usable(userEntry, lat, long, currentTime)
    THEN [tier |-> "user", result |-> Returns(userEntry[1].weatherSummary)]
    ELSE IF Usable(sharedEntry, lat, long, currentTime)
    THEN [tier |-> "shared", result |-> Returns(sharedEntry[1].weatherSummary)]
    ELSE IF nb # 0
    THEN [tier |-> "neighbor", result |-> Returns(shared[nbs[nb]].weatherSummary)]
    ELSE IF NoApiKey(key)
    THEN [tier |-> "nokey", result |-> Null]
    ELSE [tier |-> "request", result |-> Pending]

\* Map m without the keys in ks.
Without(m, ks) == [j \in DOMAIN m \ ks |-> m[j]]
\* The keys of m whose entry has expired at time t.
ExpiredKeys(m, t) == {k \in DOMAIN m : m[k].expiresAt <= t}

(***************************************************************************)
(* C25.  For getWeather an expired entry is indistinguishable from an      *)
(* absent one: the value a call returns and its decision to issue a        *)
(* network request are those the same call would produce in the state      *)
(* that differs only in lacking any of the expired entries, per-user or    *)
(* shared, that the caches hold.                                           *)
(***************************************************************************)
C25_ExpiredIsAbsent ==
    [][CallStep =>
          LET c == ev'.call IN
          \A us \in SUBSET ExpiredKeys(perUserCache, now) :
             \A ks \in SUBSET ExpiredKeys(sharedCache, now) :
                LET o == getWeatherOutcome(Without(perUserCache, us),
                                           Without(sharedCache, ks), apiKey,
                                           c.userId, c.lat, c.long, now)
                IN  /\ ev'.tier = o.tier
                    /\ ev'.result = o.result
                    /\ (netCalls' # netCalls) = (o.tier = "request")]_vars

\* A call that went to the network although the caller's slot and the shared
\* slot of the query's cell both hold an entry within 5 km: both have expired.
C25_Witness ==
    /\ ev.op = "getWeather"
    /\ ev.tier = "request"
    /\ \E e \in Held(ev.call.userId) :
          e.expiresAt <= now /\ Metres(e, ev.call) <= RadiusMetres
    /\ ev.call.bucketKey \in DOMAIN sharedCache
    /\ sharedCache[ev.call.bucketKey].expiresAt <= now
    /\ Metres(sharedCache[ev.call.bucketKey], ev.call) <= RadiusMetres

\* Invocation id has handed its caller a summary or absent (null).
Returned(id) ==
    /\ ev.op = "response"
    /\ ev.call.id = id
    /\ ev.result.kind \in {"summary", "null"}

(***************************************************************************)
(* C26.  With every issued request eventually completing, every getWeather *)
(* invocation eventually returns a summary or absent.  An invocation that  *)
(* hits a cache tier or finds no credential returns in the step that       *)
(* started it, without suspending; an invocation suspends only by issuing  *)
(* its request, and is then resumed only by the response to that request.  *)
(***************************************************************************)
C26_EveryInvocationReturns ==
    /\ \A id \in 1..MaxCalls : (id \in DOMAIN inflight) ~> Returned(id)
    /\ [][(CallStep /\ ev'.tier # "request") =>
            /\ ev'.result.kind \in {"summary", "null"}
            /\ inflight' = inflight]_vars
    /\ [][(CallStep /\ ev'.tier = "request") =>
            /\ ev'.result.kind = "pending"
            /\ ev'.call.id \notin DOMAIN inflight
            /\ inflight' = MapSet(inflight, ev'.call.id, ev'.call)]_vars
    /\ [][inflight' # inflight =>
            \/ CallStep /\ ev'.tier = "request"
            \/ /\ ev'.op = "response"
               /\ ev'.call.id \in DOMAIN inflight
               /\ inflight' = MapDelete(inflight, ev'.call.id)]_vars

(***************************************************************************)
(* C27.  In every reachable state, also while fetches are in flight and    *)
(* complete in any order, the write-order sequence holds no key twice and  *)
(* its keys are exactly the keys of the shared-cache map; the length of    *)
(* the sequence is the size of the map.                                    *)
(***************************************************************************)
C27_SequenceMatchesMap ==
    /\ \A i, j \in 1..Len(sharedLRU) : sharedLRU[i] = sharedLRU[j] => i = j
    /\ {sharedLRU[i] : i \in 1..Len(sharedLRU)} = DOMAIN sharedCache
    /\ Len(sharedLRU) = Cardinality(DOMAIN sharedCache)

\* A fetch has just completed ahead of one that started before it and is still
\* in flight, on a full cache that has already evicted a bucket.
C27_Witness ==
    /\ ev.op = "response"
    /\ ev.tier = "network"
    /\ \E id \in DOMAIN inflight : id < ev.call.id
    /\ Len(sharedLRU) = MAX_SHARED_CACHE_ENTRIES
    /\ \E i \in 1..Len(writes) : writes[i] \notin DOMAIN sharedCache

(***************************************************************************)
(* C28.  Every summary getWeather returns from a cache tier belongs to an  *)
(* entry whose stored coordinate is within 5 km of the coordinate of that  *)
(* very call and whose expiresAt is later than the start of the call.  The *)
(* stored coordinate and fetchedAt of an entry are those of the call that  *)
(* fetched it, so, through any chain of hydrations and moves, no user      *)
(* receives a summary fetched more than 5 km from the queried point or     *)
(* more than 10 minutes before the call.                                   *)
(***************************************************************************)
C28_ServedNearAndRecent ==
    /\ [][(CallStep /\ ev'.tier \in CacheTiers) =>
            LET c == ev'.call
                e == perUserCache'[c.userId]
            IN  /\ e \in Held(c.userId) \cup Shared
                /\ ev'.tier = "user" => e \in Held(c.userId)
                /\ ev'.result = Returns(e.weatherSummary)
                /\ c.currentTime = now
                /\ Metres(e, c) <= RadiusMetres
                /\ e.expiresAt > c.currentTime
                /\ c.currentTime - e.fetchedAt < TenMinutes]_vars
    /\ [][(ev'.op = "response" /\ ev'.tier = "network") =>
            LET c == ev'.call
                e == perUserCache'[c.userId]
            IN  /\ e.lat = c.lat /\ e.long = c.long
                /\ e.fetchedAt = c.currentTime
                /\ c.currentTime <= now
                /\ Stored' \subseteq Stored \cup {e}]_vars
    /\ [][Stored' \subseteq Stored \/ (ev'.op = "response" /\ ev'.tier = "network")]_vars

\* A user is served from their own slot at a coordinate other than the one the
\* entry was fetched at, some time after the fetch; the entry is a shared one
\* too, and another user holds it as well.
C28_Witness ==
    /\ ev.op = "getWeather"
    /\ ev.tier = "user"
    /\ \E e \in Held(ev.call.userId) :
          /\ <<e.lat, e.long>> # <<ev.call.lat, ev.call.long>>
          /\ e.fetchedAt < now
          /\ e \in Shared
          /\ \E u \in Users \ {ev.call.userId} : e \in Held(u)

(***************************************************************************)
(* C29.  The shared slot of a bucket holds the most recent resolution for  *)
(* that cell: whenever a slot is overwritten, the fetchedAt of the new     *)
(* entry is greater than or equal to the fetchedAt of the entry it         *)
(* replaces, also when two fetches for one bucket are in flight together   *)
(* and complete in the opposite order to the one their calls started in.   *)
(***************************************************************************)
C29_OverwriteNeverOlder ==
    [][\A k \in DOMAIN sharedCache \cap DOMAIN sharedCache' :
          sharedCache'[k].fetchedAt >= sharedCache[k].fetchedAt]_vars

(***************************************************************************)
(* C30.  An entry written by a successful fetch is valid at the moment it  *)
(* is written, whatever the latency of the network call: its expiresAt is  *)
(* later than the time the response arrives, so a call by the same user at *)
(* the same coordinate right after the fetch returns is a per-user hit,    *)
(* with no network request.                                                *)
(***************************************************************************)
C30_WrittenEntryIsValid ==
    [][(ev'.op = "response" /\ ev'.tier = "network") =>
          LET c == ev'.call
              e == perUserCache'[c.userId]
          IN  /\ e.expiresAt > now'
              /\ getWeatherOutcome(perUserCache', sharedCache', apiKey', c.userId,
                                   c.lat, c.long, now').tier = "user"]_vars

(***************************************************************************)
(* C31.  Once clearUser(U) has run, U's per-user slot stays empty until a  *)
(* getWeather call for U invoked after the clear resolves successfully: a  *)
(* slot is filled only by a call of its own user, and an invocation for U  *)
(* that was suspended at its request when clearUser(U) ran never writes an *)
(* entry when its fetch completes.                                         *)
(***************************************************************************)
C31_ClearedSlotStaysEmpty ==
    /\ [][\A u \in Users :
            (u \notin DOMAIN perUserCache /\ u \in DOMAIN perUserCache') =>
               /\ ev'.call.userId = u
               /\ \/ CallStep /\ ev'.tier \in {"shared", "neighbor"}
                  \/ ev'.op = "response" /\ ev'.tier = "network"]_vars
    /\ \A id \in 1..MaxCalls :
          []((/\ ev.op = "clearUser"
              /\ id \in DOMAIN inflight
              /\ inflight[id].userId = ev.call.userId)
             => [](~(/\ ev.op = "response"
                     /\ ev.call.id = id
                     /\ ev.tier = "network"
                     /\ ev.call.userId \in DOMAIN perUserCache)))

(***************************************************************************)
(* C32.  A fetch that succeeds writes without looking at the cache again.  *)
(* When two concurrent fetches for one bucket both succeed, the first      *)
(* completion adds the bucket (size + 1 below capacity) and the second     *)
(* overwrites the slot and leaves the size as it is: after either, the     *)
(* slot holds the entry of the fetch that has just completed, the key is   *)
(* in the write-order sequence once, at its end, the caller's per-user     *)
(* slot holds the entry of its own fetch, and every other per-user slot    *)
(* still holds what it held.                                               *)
(***************************************************************************)
C32_SecondCompletionOverwrites ==
    [][(ev'.op = "response" /\ ev'.tier = "network") =>
          LET c    == ev'.call
              k    == c.bucketKey
              e    == MakeEntry(c, ev'.result.summary[1])
              size == Cardinality(DOMAIN sharedCache)
          IN  /\ sharedCache'[k] = e
              /\ perUserCache'[c.userId] = e
              /\ \A u \in DOMAIN perUserCache \ {c.userId} :
                    u \in DOMAIN perUserCache' /\ perUserCache'[u] = perUserCache[u]
              /\ sharedLRU'[Len(sharedLRU')] = k
              /\ \A i \in 1..(Len(sharedLRU') - 1) : sharedLRU'[i] # k
              /\ k \in DOMAIN sharedCache =>
                    /\ DOMAIN sharedCache' = DOMAIN sharedCache
                    /\ Len(sharedLRU') = Len(sharedLRU)
              /\ (k \notin DOMAIN sharedCache /\ size < MAX_SHARED_CACHE_ENTRIES) =>
                    Cardinality(DOMAIN sharedCache') = size + 1]_vars

\* Two users asked at one coordinate at one instant, both missed and both
\* fetches succeeded with different readings: one shared entry for the bucket,
\* that of the fetch that completed last, and each user holds their own.
C32_Witness ==
    /\ ev.op = "response"
    /\ ev.tier = "network"
    /\ inflight = EmptyMap
    /\ writes = <<ev.call.bucketKey, ev.call.bucketKey>>
    /\ sharedLRU = <<ev.call.bucketKey>>
    /\ DOMAIN sharedCache = {ev.call.bucketKey}
    /\ DOMAIN perUserCache = Users
    /\ sharedCache[ev.call.bucketKey] = perUserCache[ev.call.userId]
    /\ \A u \in Users \ {ev.call.userId} :
          /\ perUserCache[u] # perUserCache[ev.call.userId]
          /\ perUserCache[u].lat = ev.call.lat
          /\ perUserCache[u].long = ev.call.long
          /\ perUserCache[u].fetchedAt = ev.call.currentTime

(***************************************************************************)
(* C33.  The per-user check has priority over fresher shared data: when    *)
(* the caller's own entry is valid and within 5 km of the query,           *)
(* getWeather returns it, whatever the shared cache holds, and leaves the  *)
(* caller's slot as it is, also when the shared slot of the query's bucket *)
(* holds a qualifying entry with a later fetchedAt.  A getWeather call     *)
(* replaces the caller's entry by a shared one only when the caller's own  *)
(* has expired or lies more than 5 km from the query.                      *)
(***************************************************************************)
C33_OwnEntryFirst ==
    /\ [][CallStep =>
            LET c == ev'.call
                u == c.userId
            IN  (u \in DOMAIN perUserCache /\ Qualifies(perUserCache[u], c, now)) =>
                   /\ ev'.tier = "user"
                   /\ ev'.result = Returns(perUserCache[u].weatherSummary)
                   /\ UNCHANGED <<perUserCache, sharedCache, sharedLRU, netCalls,
                                  inflight, writes>>
                   /\ \A ks \in SUBSET DOMAIN sharedCache :
                         getWeatherOutcome(perUserCache, Without(sharedCache, ks),
                                           apiKey, u, c.lat, c.long, now)
                            = [tier |-> ev'.tier, result |-> ev'.result]]_vars
    /\ [][\A u \in DOMAIN perUserCache :
            (/\ CallStep
             /\ u \in DOMAIN perUserCache'
             /\ perUserCache'[u] # perUserCache[u]) =>
               /\ ev'.call.userId = u
               /\ ev'.tier \in {"shared", "neighbor"}
               /\ ~Qualifies(perUserCache[u], ev'.call, now)]_vars

\* A user has just been served their own entry while the shared slot of the
\* query's bucket holds a qualifying entry fetched later.
C33_Witness ==
    /\ ev.op = "getWeather"
    /\ ev.tier = "user"
    /\ ev.call.bucketKey \in DOMAIN sharedCache
    /\ LET own == perUserCache[ev.call.userId]
           s   == sharedCache[ev.call.bucketKey]
       IN  /\ Qualifies(s, ev.call, now)
           /\ s.fetchedAt > own.fetchedAt
           /\ ev.result = Returns(own.weatherSummary)
           /\ s.weatherSummary # own.weatherSummary

(***************************************************************************)
(* C34.  Per-user entries are independent of shared-cache eviction: a step *)
(* that evicts a bucket's entry from the shared cache leaves every         *)
(* per-user slot holding that entry as it is, and a user holding an entry  *)
(* that is in no shared slot is still served it, with no network request,  *)
(* while it is valid and within 5 km of the query.                         *)
(***************************************************************************)
C34_EvictionKeepsUserSlots ==
    /\ [][\A k \in DOMAIN sharedCache \ DOMAIN sharedCache' :
            /\ ev'.op = "response"
            /\ \A u \in DOMAIN perUserCache \ {ev'.call.userId} :
                  perUserCache[u] = sharedCache[k] =>
                     u \in DOMAIN perUserCache' /\ perUserCache'[u] = sharedCache[k]]_vars
    /\ [][CallStep =>
            LET c == ev'.call
                u == c.userId
            IN  (/\ u \in DOMAIN perUserCache
                 /\ perUserCache[u] \notin Shared
                 /\ Qualifies(perUserCache[u], c, now)) =>
                    /\ ev'.tier = "user"
                    /\ ev'.result = Returns(perUserCache[u].weatherSummary)
                    /\ netCalls' = netCalls
                    /\ perUserCache' = perUserCache]_vars

\* A user has just been served the entry of a bucket that was evicted from the
\* shared cache: the bucket was written, it is no longer a key of the map, and
\* the cache is full of other buckets.
C34_Witness ==
    /\ ev.op = "getWeather"
    /\ ev.tier = "user"
    /\ LET own == perUserCache[ev.call.userId] IN
          /\ own.bucketKey \notin DOMAIN sharedCache
          /\ \E i \in 1..Len(writes) : writes[i] = own.bucketKey
          /\ ev.result = Returns(own.weatherSummary)
    /\ Len(sharedLRU) = MAX_SHARED_CACHE_ENTRIES

(***************************************************************************)
(* C35.  In every reachable state each shared-cache slot is keyed          *)
(* consistently: the entry stored under key k has bucketKey k, and k is    *)
(* the bucket of the entry's own coordinate.  Every per-user entry too has *)
(* the bucket of its own coordinate as its bucketKey, also after hydration *)
(* from a neighbour cell.                                                  *)
(***************************************************************************)
C35_ConsistentKeys ==
    /\ \A k \in DOMAIN sharedCache :
          /\ sharedCache[k].bucketKey = k
          /\ computeBucketKey(sharedCache[k].lat, sharedCache[k].long) = k
    /\ \A u \in DOMAIN perUserCache :
          perUserCache[u].bucketKey
             = computeBucketKey(perUserCache[u].lat, perUserCache[u].long)

\* A user has just been hydrated from a neighbour cell: the entry in their slot
\* is keyed by a bucket other than the bucket of their query.
C35_Witness ==
    /\ ev.op = "getWeather"
    /\ ev.tier = "neighbor"
    /\ perUserCache[ev.call.userId].bucketKey # ev.call.bucketKey
    /\ perUserCache[ev.call.userId].bucketKey \in DOMAIN sharedCache
    /\ ev.call.bucketKey = computeBucketKey(ev.call.lat, ev.call.long)

\* The variables of the service: what a getWeather call reads and writes.
serviceVars == <<apiKey, perUserCache, sharedCache, sharedLRU, now, inflight, netCalls>>

(***************************************************************************)
(* C36.  The test-support operations observe and reset raw state.          *)
(* __resetForTests empties the per-user cache, the shared cache and the    *)
(* write-order sequence together, so that the next getWeather, by any user *)
(* at any coordinate, is a full miss.  __sharedCacheSize is the number of  *)
(* keys of the shared map, expired entries counted.  __hasSharedFor(lat,   *)
(* long) is true exactly when the map has a key for the bucket of that     *)
(* coordinate, whether or not the entry is valid or within 5 km.  The two  *)
(* queries change nothing, and the reset nothing but the three structures. *)
(***************************************************************************)
C36_TestSupport ==
    /\ [][ev'.op = "__resetForTests" =>
            /\ perUserCache' = EmptyMap
            /\ sharedCache' = EmptyMap
            /\ sharedLRU' = << >>
            /\ UNCHANGED <<apiKey, now, inflight, netCalls>>
            /\ \A s \in Sessions, p \in TestSupportPoints :
                  getWeatherOutcome(perUserCache', sharedCache', apiKey', s.userId,
                                    p.lat, p.long, now').tier \in {"request", "nokey"}]_vars
    /\ [][ev'.op = "__sharedCacheSize" =>
            /\ ev'.result.summary[1]
                  = Cardinality({k \in DOMAIN sharedCache : sharedCache[k].expiresAt > now})
                    + Cardinality(ExpiredKeys(sharedCache, now))
            /\ UNCHANGED serviceVars]_vars
    /\ [][ev'.op = "__hasSharedFor" =>
            /\ ev'.result.summary[1]
                  = (computeBucketKey(ev'.call.lat, ev'.call.long) \in DOMAIN sharedCache)
            /\ UNCHANGED serviceVars]_vars

\* __hasSharedFor has just answered true for a coordinate whose bucket holds an
\* entry that has expired and lies more than 5 km from the coordinate.
C36_Witness ==
    /\ ev.op = "__hasSharedFor"
    /\ ev.result = Value(TRUE)
    /\ LET e == sharedCache[ev.call.bucketKey] IN
          /\ e.expiresAt <= now
          /\ Metres(e, ev.call) > RadiusMetres
=============================================================================
